---------------------------- MODULE Spec2Model ----------------------------
(***************************************************************************)
(* A model of the tool-calling orchestration core of TabMCP-ChatBot:       *)
(*                                                                         *)
(*   - MCPClient._request (src/src/server/mcpClient.ts): the retry loop,   *)
(*     the one-shot remediations and the session handshake;                *)
(*   - parseToolCallsFromChunks (toolCallingFormat.ts): the reduction of   *)
(*     a fragment stream into tool calls;                                  *)
(*   - ToolCallingLoop.execute (toolCallingLoop.ts): the round loop.       *)
(*                                                                         *)
(* Each component has its own specification over the shared variables:     *)
(* ClientSpec, AccSpec and Spec (the engine).  The variables of the        *)
(* components a specification does not drive stay at their initial value.  *)
(***************************************************************************)
EXTENDS Integers, Sequences, FiniteSets, TLC

(***************************************************************************)
(* ======================  Remote Tool Client  =========================== *)
(***************************************************************************)

\* DEFAULT_RETRY_OPTIONS
MaxRetries == 3
InitialDelayMs == 1000
MaxDelayMs == 10000
BackoffMultiplier == 2
RetryOnServerError == TRUE
RetryOnNetworkError == TRUE
RetryOnTimeout == TRUE

\* Number of distinct session tokens the service may hand out in the model.
NumSessionIds == 2
NoSession == 0
SessionIds == 1..NumSessionIds

VARIABLES
    sessionId,                 \* MCPClient._sessionId (NoSession = null)
    sessionInitialized,        \* MCPClient._sessionInitialized
    initializing,              \* MCPClient._initializing is non-null
    cpc,                       \* position of the logical call inside _request
    attempt,                   \* loop variable of the retry loop
    targetedRemediationDone,   \* local of _request
    isTargetedRetry,           \* local of _request
    lastError,                 \* local of _request
    pendingError,              \* the HTTP error held while the re-handshake runs
    callError,                 \* the error the call was rejected with
    outcomes,                  \* history: what each HTTP attempt ended with
    how,                       \* history: how each HTTP attempt was started
    delays,                    \* history: the sleep() delays of the call
    handshakes,                \* history: _initializeSession(true) calls of the call
    handshakeResult            \* history: "none", "ok" or "fail"

clientVars == <<sessionId, sessionInitialized, initializing, cpc, attempt,
                targetedRemediationDone, isTargetedRetry, lastError,
                pendingError, callError, outcomes, how, delays, handshakes,
                handshakeResult>>

\* HTTP statuses the service answers with in the model (besides 200).
HttpStatuses == {400, 404, 406, 408, 429, 500, 503}
\* JSON-RPC error codes the service answers with in the model.
ProtocolCodes == {0 - 32602, 0 - 32000}
ParseErrorCode == 0 - 32700

\* What one HTTP attempt ends with.  sess: the error body mentions
\* "session ID"; acc: the error message mentions "accept".  Both are read by
\* the code for status 400 only, so they vary for 400 only.
Outcome(k, s, se, ac, c) == [kind |-> k, status |-> s, sess |-> se, acc |-> ac, code |-> c]
OkOutcome == Outcome("ok", 200, FALSE, FALSE, 0)
HttpOutcomes ==
    {Outcome("http", s, FALSE, FALSE, 0) : s \in HttpStatuses \ {400}}
    \cup {Outcome("http", 400, se, ac, 0) : se \in BOOLEAN, ac \in BOOLEAN}
TimeoutOutcome == Outcome("timeout", 0, FALSE, FALSE, 0)
NetworkOutcome == Outcome("network", 0, FALSE, FALSE, 0)
ProtocolOutcomes == {Outcome("protocol", 200, FALSE, FALSE, c) : c \in ProtocolCodes}
ParseOutcome == Outcome("parse", 200, FALSE, FALSE, ParseErrorCode)
Outcomes == {OkOutcome, TimeoutOutcome, NetworkOutcome, ParseOutcome}
            \cup HttpOutcomes \cup ProtocolOutcomes

\* An MCPError: code 0 stands for "no code"; hasData: 'data' in error.
Err(c, n, m, d, se, ac) ==
    [code |-> c, name |-> n, isMcpError |-> m, hasData |-> d, sess |-> se, acc |-> ac]
NoError == Err(0, "none", FALSE, FALSE, FALSE, FALSE)

\* The error object the code builds for a failed attempt.
ErrorOf(o) ==
    CASE o.kind = "http"     -> Err(o.status, "Error", TRUE, TRUE, o.sess, o.acc)
      [] o.kind = "protocol" -> Err(o.code, "Error", TRUE, TRUE, FALSE, FALSE)
      [] o.kind = "parse"    -> Err(ParseErrorCode, "Error", TRUE, TRUE, FALSE, FALSE)
      [] o.kind = "timeout"  -> Err(0, "AbortError", FALSE, FALSE, FALSE, FALSE)
      [] o.kind = "network"  -> Err(0, "TypeError", FALSE, FALSE, FALSE, FALSE)
      [] OTHER               -> NoError

RECURSIVE Pow(_, _)
Pow(b, n) == IF n = 0 THEN 1 ELSE b * Pow(b, n - 1)

Min(a, b) == IF a < b THEN a ELSE b

calculateBackoffDelay(att, initialDelayMs, maxDelayMs, multiplier) ==
    Min(initialDelayMs * Pow(multiplier, att), maxDelayMs)

ShouldRetry_NoServerError(error, att, maxRetries) ==
    IF att >= maxRetries THEN FALSE
    ELSE IF error.code # 0 /\ error.code = 429 THEN TRUE
    ELSE IF error.code # 0 /\ error.code = 408 THEN RetryOnTimeout
    ELSE IF error.code # 0 /\ error.code >= 400 /\ error.code < 600 THEN FALSE
    ELSE IF error.name = "AbortError" \/ error.name = "TypeError" \/ error.code = 0
         THEN RetryOnNetworkError
    ELSE FALSE

ShouldRetry_ClientErrors(error, att, maxRetries) ==
    IF att >= maxRetries THEN FALSE
    ELSE IF error.code # 0 /\ error.code >= 400 /\ error.code < 600 THEN TRUE
    ELSE IF error.name = "AbortError" \/ error.name = "TypeError" \/ error.code = 0
         THEN RetryOnNetworkError
    ELSE TRUE

shouldRetry(error, att, maxRetries) ==
    IF att >= maxRetries THEN FALSE
    ELSE IF error.code # 0 /\ error.code >= 500 /\ error.code < 600 THEN RetryOnServerError
    ELSE IF error.code # 0 /\ error.code = 429 THEN TRUE
    ELSE IF error.code # 0 /\ error.code = 408 THEN RetryOnTimeout
    ELSE IF error.code # 0 /\ error.code >= 400 /\ error.code < 500 THEN FALSE
    ELSE IF error.name = "AbortError" \/ error.name = "TypeError" \/ error.code = 0
         THEN RetryOnNetworkError
    ELSE IF error.isMcpError /\ error.code # 0 /\ error.code < 0 THEN FALSE
    ELSE FALSE

isMCPError(error) == error.code # 0 /\ error.hasData

_isSessionIdError(error) == error.code = 400 /\ error.sess

_isAcceptHeaderError(error) == error.code = 406 \/ (error.code = 400 /\ error.acc)

\* What the code does with an error: "retry" (continue, next attempt after a
\* backoff delay), "targeted" (continue, next attempt without delay),
\* "handshake" (await _initializeSession(true)) or "throw" (reject the call).
Decision(a, e) == [act |-> a, err |-> e]

\* The outer catch of the retry loop.
OuterCatch(error, att) ==
    IF att >= MaxRetries THEN Decision("throw", error)
    ELSE IF isMCPError(error)
         THEN IF ~shouldRetry(error, att, MaxRetries)
              THEN Decision("throw", error)
              ELSE Decision("retry", error)
         ELSE LET mcpError == Err(0, "Error", TRUE, FALSE, FALSE, FALSE)
              IN  IF ~shouldRetry(mcpError, att, MaxRetries)
                  THEN Decision("throw", mcpError)
                  ELSE Decision("retry", mcpError)

\* The inner catch: every error thrown inside the attempt lands here, the
\* HTTP errors thrown after a targeted remediation included.
InnerCatch(error, att) ==
    IF error.name = "AbortError"
    THEN LET timeoutError == Err(408, "Error", TRUE, TRUE, FALSE, FALSE)
         IN  IF shouldRetry(timeoutError, att, MaxRetries)
             THEN Decision("retry", timeoutError)
             ELSE OuterCatch(timeoutError, att)
    ELSE IF isMCPError(error)
         THEN IF shouldRetry(error, att, MaxRetries)
              THEN Decision("retry", error)
              ELSE OuterCatch(error, att)
         ELSE LET mcpError == Err(0, "Error", TRUE, FALSE, FALSE, FALSE)
              IN  IF shouldRetry(mcpError, att, MaxRetries)
                  THEN Decision("retry", mcpError)
                  ELSE OuterCatch(mcpError, att)

AcceptRemediation_Repeat(error, att, done) ==
    IF _isAcceptHeaderError(error)
    THEN Decision("targeted", error)
    ELSE IF done THEN InnerCatch(error, att)
    ELSE IF shouldRetry(error, att, MaxRetries) THEN Decision("retry", error)
    ELSE InnerCatch(error, att)

\* The handling of an HTTP error from the Accept-header remediation on: the
\* code reached when the error is no session error, or the re-handshake failed.
AcceptRemediation(error, att, done) ==
    IF _isAcceptHeaderError(error) /\ att = 0 /\ ~done
    THEN Decision("targeted", error)
    ELSE IF done THEN InnerCatch(error, att)
    ELSE IF shouldRetry(error, att, MaxRetries) THEN Decision("retry", error)
    ELSE InnerCatch(error, att)

SessionRemediation_Repeat(error, att, done) ==
    IF _isSessionIdError(error) /\ att <= 1
    THEN Decision("handshake", error)
    ELSE AcceptRemediation(error, att, done)

\* The handling of a non-ok HTTP response.
SessionRemediation(error, att, done) ==
    IF _isSessionIdError(error) /\ att = 0 /\ ~done
    THEN Decision("handshake", error)
    ELSE AcceptRemediation(error, att, done)

\* The handling of what an attempt ended with.
HandleOutcome(o, att, done) ==
    IF o.kind = "http" THEN SessionRemediation(ErrorOf(o), att, done)
    ELSE InnerCatch(ErrorOf(o), att)

\* -------------------------------------------------------------------------
\* Variables of the other components (declared here so that every action can
\* state what it leaves alone).
VARIABLES
    accStream, accPos, accCalls, accIndexMap, accCallMap, accBuffers, accDone

accVars == <<accStream, accPos, accCalls, accIndexMap, accCallMap, accBuffers, accDone>>

\* The Orchestration Engine: where the run is suspended (epc), the parameters
\* and locals of execute, and the history of what the run did: the events
\* offered to the sink, the requests issued to the Model Client
\* (modelCallLog) and to the Remote Tool Client (mcpRequests), the failures
\* of the Model Client (modelFailures) and the tool calls executed with the
\* remote's answer to each (execLog).
VARIABLES
    epc, userMessage, lockedDatasourceLuid, maxIter, iteration, messages,
    toolCalls, toolResults, allToolCalls, allToolResults, events, modelCallLog,
    mcpRequests, answer, modelFailures, execLog

engVars == <<epc, userMessage, lockedDatasourceLuid, maxIter, iteration, messages,
             toolCalls, toolResults, allToolCalls, allToolResults, events, modelCallLog,
             mcpRequests, answer, modelFailures, execLog>>

\* No run of the Orchestration Engine has been started.
EngIdle ==
    /\ epc = "idle"
    /\ userMessage = <<>>
    /\ lockedDatasourceLuid = ""
    /\ maxIter = 0
    /\ iteration = 0
    /\ messages = <<>>
    /\ toolCalls = <<>>
    /\ toolResults = <<>>
    /\ allToolCalls = <<>>
    /\ allToolResults = <<>>
    /\ events = <<>>
    /\ modelCallLog = <<>>
    /\ mcpRequests = <<>>
    /\ answer = <<>>
    /\ modelFailures = <<>>
    /\ execLog = <<>>

\* Client instances used by several calls at once.  clients[k] holds the
\* fields of MCPClient instance k, callers[c] the locals and the position of
\* one logical call (one _request, or one testConnection) on an instance.
\* Instance 1 is the module-level instance of getMCPClient; the instances
\* from 2 on are those that new ToolCallingLoop() constructs, one per run.
\* Besides the fields of the code a client record carries the history of the
\* instance: inflight (initialize requests in flight), shaken (a handshake
\* completed and stored a session id), late (another run's instance held a
\* session id when this one was constructed), multiplied (a re-handshake was
\* started for a session whose rejection had already started one).
VARIABLES clients, callers

srvVars == <<clients, callers>>

\* The most logical calls in the model.
NumCalls == 2

Callers == 1..NumCalls
Clients == 1..(NumCalls + 1)

\* new MCPClient(): the fields as the class initialises them.
NewClient(isMade, isLate) ==
    [sessionId |-> NoSession, sessionInitialized |-> FALSE, initializing |-> FALSE,
     made |-> isMade, inflight |-> 0, shaken |-> FALSE, late |-> isLate,
     multiplied |-> FALSE]

\* A call that has not been made.  sent: the Mcp-Session-Id header of the
\* attempt in flight; peer: the session that attempt carries is one whose
\* rejection has started a re-handshake while the attempt was in flight.
IdleCall ==
    [pc |-> "idle", client |-> 0, attempt |-> 0, done |-> FALSE, err |-> NoError,
     sent |-> NoSession, peer |-> FALSE]

SrvIdle ==
    /\ clients = [k \in Clients |-> NewClient(k = 1, FALSE)]
    /\ callers = [c \in Callers |-> IdleCall]

\* One call of formatToolResult: its argument (result), and the content of
\* the ToolResult it returns.  Both are kept as values and texts whose unit
\* is the lexeme: a JavaScript value is a record of kind t ("str", "num",
\* "true", "arr", "obj", or "member" for a key with its value), and a JSON
\* text is a sequence of lexemes (a punctuation mark, a string, a number, a
\* literal).  Sizes are counted in lexemes.
VARIABLES fmtResult, fmtContent, fmtDone

fmtVars == <<fmtResult, fmtContent, fmtDone>>

JV(t, s, n, items) == [t |-> t, s |-> s, n |-> n, items |-> items]
JStr(s) == JV("str", s, 0, <<>>)
JNum(n) == JV("num", "", n, <<>>)
JTrue == JV("true", "", 0, <<>>)
JArr(items) == JV("arr", "", 0, items)
Member(k, v) == JV("member", k, 0, <<v>>)
JObj(members) == JV("obj", "", 0, members)

FmtIdle ==
    /\ fmtResult = JTrue
    /\ fmtContent = <<>>
    /\ fmtDone = FALSE

\* The Progress Sink of a run (the response of the chat request): written is
\* the number of events whose bytes it has accepted, escaped whether an
\* exception of an emission has reached execute.
VARIABLES written, escaped

sinkVars == <<written, escaped>>

SinkIdle ==
    /\ written = 0
    /\ escaped = FALSE

\* One call of MCPClient.listViews: what _request resolved with, and how the
\* call ended ("returned", or "thrown" with the error).
VARIABLES lvResponse, lvOutcome

lvVars == <<lvResponse, lvOutcome>>

JNull == JV("null", "", 0, <<>>)
\* A string that is the JSON text of v.
JText(v) == JV("text", "", 0, <<v>>)

LvIdle ==
    /\ lvResponse = JNull
    /\ lvOutcome = [kind |-> "none", err |-> NoError]

\* GET /api/datasources: the module-level cache and in-flight marker of the
\* server, the clock (Date.now()), and the history of the list-datasources
\* fetches and of the requests.
VARIABLES clock, datasourcesCache, datasourcesInflight, fetches, requests

dsVars == <<clock, datasourcesCache, datasourcesInflight, fetches, requests>>

NoFetch == 0
NoCache == [value |-> 0, expiresAt |-> -1]

DsIdle ==
    /\ clock = 0
    /\ datasourcesCache = NoCache
    /\ datasourcesInflight = NoFetch
    /\ fetches = <<>>
    /\ requests = <<>>

\* buildContextEnvelope: the module-level contextCache (a Map, kept as the
\* sequence of its entries in insertion order), the clock, and the history of
\* the calls.
VARIABLES contextCache, ceNow, ceCalls

ceVars == <<contextCache, ceNow, ceCalls>>

CeIdle ==
    /\ contextCache = <<>>
    /\ ceNow = 0
    /\ ceCalls = <<>>

\* The conversation-state store (ConversationStateManager.sessions: session
\* id -> stored history and the number of messages ever stored), and the
\* chat requests handled so far.
VARIABLES sessions, chats

sessVars == <<sessions, chats>>

SessIdle ==
    /\ sessions = <<>>
    /\ chats = <<>>

\* One call of MCPClient._parseSSEResponse: the events the body was made of,
\* its complete lines and its unterminated rest, the request id, the position
\* of the reader, the locals mcpResponse and currentData, and the outcome.
VARIABLES sseEvents, sseLines, sseRest, sseRequestId, ssePos, mcpResponse,
          currentData, sseOutcome

sseVars == <<sseEvents, sseLines, sseRest, sseRequestId, ssePos, mcpResponse,
             currentData, sseOutcome>>

JUndefined == JV("undefined", "", 0, <<>>)
\* mcpResponse = null
NoResponse == JV("none", "", 0, <<>>)
\* A line of the body, by the branch it takes: "event", "data" (toks is its
\* content after "data: "), "blank", "comment"; "none" is no line.
SseLine(k, toks) == [k |-> k, toks |-> toks]
NoLine == SseLine("none", <<>>)

SseIdle ==
    /\ sseEvents = <<>>
    /\ sseLines = <<>>
    /\ sseRest = NoLine
    /\ sseRequestId = JUndefined
    /\ ssePos = 0
    /\ mcpResponse = NoResponse
    /\ currentData = <<>>
    /\ sseOutcome = [kind |-> "none", val |-> NoResponse]

\* The chat client's parseSSEStream: the events the server sent, the text of
\* the response body, how much of it has been read, the parser's buffer, the
\* events handed to onEvent, and whether the body is open.
VARIABLES rdSent, rdStream, rdPos, rdBuffer, rdDelivered, rdPhase

rdVars == <<rdSent, rdStream, rdPos, rdBuffer, rdDelivered, rdPhase>>

RdIdle ==
    /\ rdSent = <<>>
    /\ rdStream = <<>>
    /\ rdPos = 0
    /\ rdBuffer = <<>>
    /\ rdDelivered = <<>>
    /\ rdPhase = "idle"

(***************************************************************************)
(* ========================  Chunk Accumulator  ========================== *)
(***************************************************************************)

\* Text is a sequence of one-character strings.  JavaScript values that the
\* accumulator handles: undefined, an object (a function from property
\* names to string values), or an array.
EmptyObj == [k \in {} |-> <<>>]
JsUndefined == [t |-> "undefined", v |-> EmptyObj]
JsObject(f) == [t |-> "object", v |-> f]
\* An empty array: truthy, and without own properties to spread.
JsArray == [t |-> "array", v |-> EmptyObj]
Truthy(x) == x.t # "undefined"

\* { ...a, ...b }: the own properties of a, then those of b over them.
Spread(a, b) ==
    JsObject([k \in (DOMAIN a.v) \cup (DOMAIN b.v) |->
                 IF k \in DOMAIN b.v THEN b.v[k] ELSE a.v[k]])

\* String.prototype.trim() leaves nothing.
IsBlank(text) == \A i \in DOMAIN text : text[i] = " "

\* JSON.parse, for texts over the alphabet { } " : , space and letters: an
\* object whose members are string : string.  One character at a time:
\* mode is the parser's position in the grammar.
ParserStart == [mode |-> "start", key |-> <<>>, cur |-> <<>>, obj |-> EmptyObj]

ParseChar(st, c) ==
    CASE st.mode = "start" ->
            IF c = " " THEN st
            ELSE IF c = "{" THEN [st EXCEPT !.mode = "first"]
            ELSE [st EXCEPT !.mode = "fail"]
      [] st.mode = "first" ->
            IF c = " " THEN st
            ELSE IF c = "}" THEN [st EXCEPT !.mode = "end"]
            ELSE IF c = "\"" THEN [st EXCEPT !.mode = "key", !.key = <<>>]
            ELSE [st EXCEPT !.mode = "fail"]
      [] st.mode = "key" ->
            IF c = "\"" THEN [st EXCEPT !.mode = "colon"]
            ELSE [st EXCEPT !.key = Append(@, c)]
      [] st.mode = "colon" ->
            IF c = " " THEN st
            ELSE IF c = ":" THEN [st EXCEPT !.mode = "value"]
            ELSE [st EXCEPT !.mode = "fail"]
      [] st.mode = "value" ->
            IF c = " " THEN st
            ELSE IF c = "\"" THEN [st EXCEPT !.mode = "str", !.cur = <<>>]
            ELSE [st EXCEPT !.mode = "fail"]
      [] st.mode = "str" ->
            IF c = "\""
            THEN [st EXCEPT !.mode = "next",
                            !.obj = [k \in (DOMAIN st.obj) \cup {st.key} |->
                                        IF k = st.key THEN st.cur ELSE st.obj[k]]]
            ELSE [st EXCEPT !.cur = Append(@, c)]
      [] st.mode = "next" ->
            IF c = " " THEN st
            ELSE IF c = "," THEN [st EXCEPT !.mode = "more"]
            ELSE IF c = "}" THEN [st EXCEPT !.mode = "end"]
            ELSE [st EXCEPT !.mode = "fail"]
      [] st.mode = "more" ->
            IF c = " " THEN st
            ELSE IF c = "\"" THEN [st EXCEPT !.mode = "key", !.key = <<>>]
            ELSE [st EXCEPT !.mode = "fail"]
      [] st.mode = "end" ->
            IF c = " " THEN st ELSE [st EXCEPT !.mode = "fail"]
      [] OTHER -> st

RECURSIVE ParseFrom(_, _, _)
ParseFrom(text, i, st) ==
    IF i > Len(text) THEN st ELSE ParseFrom(text, i + 1, ParseChar(st, text[i]))

\* ok: JSON.parse returned val; ~ok: it threw a SyntaxError.
JsonParse(text) ==
    LET st == ParseFrom(text, 1, ParserStart)
    IN  [ok |-> st.mode = "end", val |-> JsObject(st.obj)]

\* An LLMResponseChunk.  index NoIndex: the chunk carries no index; cbId "":
\* no content_block.tool_use_id / id; cbName "": no name.
NoIndex == 0 - 1
Chunk(ty, idx, cbt, id, nm, inp, dt, pj, tx) ==
    [type |-> ty, index |-> idx, cbType |-> cbt, cbId |-> id, cbName |-> nm,
     cbInput |-> inp, dType |-> dt, partialJson |-> pj, text |-> tx]
ToolUseStart(idx, id, nm, inp) ==
    Chunk("content_block_start", idx, "tool_use", id, nm, inp, "", <<>>, <<>>)
InputJsonDelta(idx, pj) ==
    Chunk("content_block_delta", idx, "", "", "", JsUndefined, "input_json_delta", pj, <<>>)
TextDelta(idx, tx) ==
    Chunk("content_block_delta", idx, "", "", "", JsUndefined, "text_delta", <<>>, tx)
BlockStop(idx) ==
    Chunk("content_block_stop", idx, "", "", "", JsUndefined, "", <<>>, <<>>)
MessageStart == Chunk("message_start", NoIndex, "", "", "", JsUndefined, "", <<>>, <<>>)
MessageStop == Chunk("message_stop", NoIndex, "", "", "", JsUndefined, "", <<>>, <<>>)

\* Map.set / get / delete on a function, and on toolCallMap, which is kept as
\* the sequence of its entries in insertion order (the order the final loop
\* over toolCallMap.entries() visits them in).
FnSet(m, k, v) == [x \in (DOMAIN m) \cup {k} |-> IF x = k THEN v ELSE m[x]]
FnDelete(m, k) ==
    IF (DOMAIN m) \ {k} = {} THEN <<>> ELSE [x \in (DOMAIN m) \ {k} |-> m[x]]
CallMapHas(cm, id) == \E i \in DOMAIN cm : cm[i].id = id
CallMapGet(cm, id) == cm[CHOOSE i \in DOMAIN cm : cm[i].id = id]
CallMapSet(cm, id, e) ==
    IF CallMapHas(cm, id)
    THEN [i \in DOMAIN cm |-> IF cm[i].id = id THEN e ELSE cm[i]]
    ELSE Append(cm, e)
CallMapDelete(cm, id) == LET Keep(e) == e.id # id IN SelectSeq(cm, Keep)

ToolCall(id, nm, inp) == [id |-> id, name |-> nm, input |-> inp]

\* The locals of parseToolCallsFromChunks.
AccState(calls, im, cm, bufs) ==
    [toolCalls |-> calls, indexToToolUseId |-> im, toolCallMap |-> cm, inputBuffers |-> bufs]

\* content_block_start of a tool_use block.
AccOnStart(s, c) ==
    IF c.type = "content_block_start" /\ c.cbType = "tool_use"
       /\ c.cbId # "" /\ c.cbName # ""
    THEN AccState(s.toolCalls,
                  IF c.index # NoIndex THEN FnSet(s.indexToToolUseId, c.index, c.cbId)
                                       ELSE s.indexToToolUseId,
                  CallMapSet(s.toolCallMap, c.cbId,
                             ToolCall(c.cbId, c.cbName,
                                      IF Truthy(c.cbInput) THEN c.cbInput
                                                           ELSE JsObject(EmptyObj))),
                  FnSet(s.inputBuffers, c.cbId, <<>>))
    ELSE s

\* The tool_use_id an input_json_delta chunk is attributed to ("": none).
DeltaOwner(s, c) ==
    IF c.index # NoIndex /\ c.index \in DOMAIN s.indexToToolUseId
    THEN s.indexToToolUseId[c.index]
    ELSE c.cbId

\* content_block_delta carrying an input_json_delta.
AccOnDelta(s, c) ==
    IF c.type = "content_block_delta" /\ c.dType = "input_json_delta"
       /\ DeltaOwner(s, c) # "" /\ c.partialJson # <<>> /\ ~IsBlank(c.partialJson)
    THEN LET id == DeltaOwner(s, c)
             cur == IF id \in DOMAIN s.inputBuffers THEN s.inputBuffers[id] ELSE <<>>
         IN  [s EXCEPT !.inputBuffers = FnSet(@, id, cur \o c.partialJson)]
    ELSE s

\* The tool_use_id a content_block_stop chunk closes ("": none).
StopOwner(s, c) ==
    IF c.cbId # "" THEN c.cbId
    ELSE IF c.index # NoIndex /\ c.index \in DOMAIN s.indexToToolUseId
         THEN s.indexToToolUseId[c.index]
         ELSE ""

\* The input of a tool call at its stop: the block-start input, with the
\* parsed delta JSON merged over it when there is any and it parses.
MergedInput(tc, buf) ==
    IF buf # <<>> /\ ~IsBlank(buf) /\ JsonParse(buf).ok
    THEN Spread(tc.input, JsonParse(buf).val)
    ELSE tc.input

\* content_block_stop.
AccOnStop(s, c) ==
    IF c.type = "content_block_stop" /\ StopOwner(s, c) # ""
       /\ CallMapHas(s.toolCallMap, StopOwner(s, c))
    THEN LET id == StopOwner(s, c)
             tc == CallMapGet(s.toolCallMap, id)
             buf == IF id \in DOMAIN s.inputBuffers THEN s.inputBuffers[id] ELSE <<>>
         IN  AccState(Append(s.toolCalls, ToolCall(tc.id, tc.name, MergedInput(tc, buf))),
                      IF c.index # NoIndex THEN FnDelete(s.indexToToolUseId, c.index)
                                           ELSE s.indexToToolUseId,
                      CallMapDelete(s.toolCallMap, id),
                      FnDelete(s.inputBuffers, id))
    ELSE s

\* The body of the for-await loop for one chunk.
AccStep(s, c) == AccOnStop(AccOnDelta(AccOnStart(s, c), c), c)

AccFlush_DropOpen(s) == s.toolCalls

\* After the stream has ended: the tool calls that were never stopped.
AccFlush(s) == s.toolCalls \o s.toolCallMap

RECURSIVE AccFold(_, _, _)
AccFold(s, stream, i) ==
    IF i > Len(stream) THEN s ELSE AccFold(AccStep(s, stream[i]), stream, i + 1)

\* parseToolCallsFromChunks on a stream that ends normally.
parseToolCallsFromChunks(stream) == AccFlush(AccFold(AccState(<<>>, <<>>, <<>>, <<>>), stream, 1))

\* -------------------------------------------------------------------------
\* Actions of MCPClient._request for one logical call at a time.

ClientInit ==
    /\ sessionId = NoSession
    /\ sessionInitialized = FALSE
    /\ initializing = FALSE
    /\ cpc = "idle"
    /\ attempt = 0
    /\ targetedRemediationDone = FALSE
    /\ isTargetedRetry = FALSE
    /\ lastError = NoError
    /\ pendingError = NoError
    /\ callError = NoError
    /\ outcomes = <<>>
    /\ how = <<>>
    /\ delays = <<>>
    /\ handshakes = 0
    /\ handshakeResult = "none"

\* _request is entered: its locals are initialised.
StartCall ==
    /\ cpc \in {"idle", "done", "failed"}
    /\ cpc' = "top"
    /\ attempt' = 0
    /\ targetedRemediationDone' = FALSE
    /\ isTargetedRetry' = FALSE
    /\ lastError' = NoError
    /\ pendingError' = NoError
    /\ callError' = NoError
    /\ outcomes' = <<>>
    /\ how' = <<>>
    /\ delays' = <<>>
    /\ handshakes' = 0
    /\ handshakeResult' = "none"
    /\ UNCHANGED <<sessionId, sessionInitialized, initializing>>

BeginAttempt_DelayReplay ==
    /\ cpc = "top"
    /\ IF attempt > MaxRetries
       THEN /\ cpc' = "failed"
            /\ callError' = lastError
            /\ UNCHANGED <<delays, how, isTargetedRetry>>
       ELSE IF attempt > 0
            THEN /\ delays' = Append(delays,
                        calculateBackoffDelay(attempt - 1, InitialDelayMs,
                                              MaxDelayMs, BackoffMultiplier))
                 /\ cpc' = "sleep"
                 /\ UNCHANGED <<how, isTargetedRetry, callError>>
            ELSE /\ isTargetedRetry' = FALSE
                 /\ how' = Append(how, "first")
                 /\ cpc' = "fetch"
                 /\ UNCHANGED <<delays, callError>>
    /\ UNCHANGED <<sessionId, sessionInitialized, initializing, attempt,
                   targetedRemediationDone, lastError, pendingError, outcomes,
                   handshakes, handshakeResult>>

\* The head of one loop iteration, up to its first await: the loop test, then
\* either the backoff sleep or the fetch.
BeginAttempt ==
    /\ cpc = "top"
    /\ IF attempt > MaxRetries
       THEN /\ cpc' = "failed"
            /\ callError' = lastError
            /\ UNCHANGED <<delays, how, isTargetedRetry>>
       ELSE IF attempt > 0 /\ ~isTargetedRetry
            THEN /\ delays' = Append(delays,
                        calculateBackoffDelay(attempt - 1, InitialDelayMs,
                                              MaxDelayMs, BackoffMultiplier))
                 /\ cpc' = "sleep"
                 /\ UNCHANGED <<how, isTargetedRetry, callError>>
            ELSE /\ isTargetedRetry' = FALSE
                 /\ how' = Append(how, IF attempt = 0 THEN "first" ELSE "replay")
                 /\ cpc' = "fetch"
                 /\ UNCHANGED <<delays, callError>>
    /\ UNCHANGED <<sessionId, sessionInitialized, initializing, attempt,
                   targetedRemediationDone, lastError, pendingError, outcomes,
                   handshakes, handshakeResult>>

\* The backoff sleep is over: the attempt is sent.
WakeUp ==
    /\ cpc = "sleep"
    /\ isTargetedRetry' = FALSE
    /\ how' = Append(how, "backoff")
    /\ cpc' = "fetch"
    /\ UNCHANGED <<sessionId, sessionInitialized, initializing, attempt,
                   targetedRemediationDone, lastError, pendingError, callError,
                   outcomes, delays, handshakes, handshakeResult>>

\* continue / throw, as decided for an error.
ApplyDecision(d) ==
    CASE d.act = "retry" ->
            /\ lastError' = d.err
            /\ attempt' = attempt + 1
            /\ cpc' = "top"
            /\ UNCHANGED <<targetedRemediationDone, isTargetedRetry, callError>>
      [] d.act = "targeted" ->
            /\ targetedRemediationDone' = TRUE
            /\ isTargetedRetry' = TRUE
            /\ lastError' = d.err
            /\ attempt' = attempt + 1
            /\ cpc' = "top"
            /\ UNCHANGED callError
      [] OTHER ->
            /\ cpc' = "failed"
            /\ callError' = d.err
            /\ UNCHANGED <<attempt, targetedRemediationDone, isTargetedRetry, lastError>>

\* The session id and flag after the response header of an attempt was read.
CapturedSession(hdr) ==
    IF hdr # NoSession /\ hdr # sessionId
    THEN [id |-> hdr, init |-> TRUE]
    ELSE [id |-> sessionId, init |-> sessionInitialized]

\* The fetch of the attempt settles with outcome o; hdr is the Mcp-Session-Id
\* header of the response (NoSession: none, or no response at all).
Response(o, hdr) ==
    /\ cpc = "fetch"
    /\ o.kind \in {"timeout", "network"} => hdr = NoSession
    /\ outcomes' = Append(outcomes, o)
    /\ LET cap == CapturedSession(hdr)
           d == HandleOutcome(o, attempt, targetedRemediationDone)
       IN  IF o.kind = "ok"
           THEN /\ cpc' = "done"
                /\ sessionId' = cap.id
                /\ sessionInitialized' = cap.init
                /\ UNCHANGED <<initializing, attempt, targetedRemediationDone,
                               isTargetedRetry, lastError, pendingError,
                               callError, handshakes>>
           ELSE IF d.act = "handshake"
           THEN \* _initializeSession(true), up to its fetch
                /\ sessionInitialized' = FALSE
                /\ sessionId' = NoSession
                /\ initializing' = TRUE
                /\ handshakes' = handshakes + 1
                /\ pendingError' = d.err
                /\ cpc' = "handshake"
                /\ UNCHANGED <<attempt, targetedRemediationDone, isTargetedRetry,
                               lastError, callError>>
           ELSE /\ sessionId' = cap.id
                /\ sessionInitialized' = cap.init
                /\ ApplyDecision(d)
                /\ UNCHANGED <<initializing, pendingError, handshakes>>
    /\ UNCHANGED <<how, delays, handshakeResult>>

\* The initialize request succeeded; hdr is its Mcp-Session-Id header.
HandshakeOk(hdr) ==
    /\ cpc = "handshake"
    /\ sessionId' = IF hdr # NoSession THEN hdr ELSE sessionId
    /\ sessionInitialized' = TRUE
    /\ initializing' = FALSE
    /\ handshakeResult' = "ok"
    /\ ApplyDecision(Decision("targeted", pendingError))
    /\ UNCHANGED <<pendingError, outcomes, how, delays, handshakes>>

\* The initialize request failed: the session is reset and the HTTP error of
\* the attempt falls through to the rest of the error handling.
HandshakeFail ==
    /\ cpc = "handshake"
    /\ sessionId' = NoSession
    /\ sessionInitialized' = FALSE
    /\ initializing' = FALSE
    /\ handshakeResult' = "fail"
    /\ ApplyDecision(AcceptRemediation(pendingError, attempt, targetedRemediationDone))
    /\ UNCHANGED <<pendingError, outcomes, how, delays, handshakes>>

AccIdle ==
    /\ accStream = <<>>
    /\ accPos = 0
    /\ accCalls = <<>>
    /\ accIndexMap = <<>>
    /\ accCallMap = <<>>
    /\ accBuffers = <<>>
    /\ accDone = FALSE

ClientNext ==
    \/ StartCall /\ UNCHANGED <<accVars, engVars, srvVars, fmtVars, sinkVars, lvVars, dsVars, ceVars, sessVars, sseVars, rdVars>>
    \/ BeginAttempt /\ UNCHANGED <<accVars, engVars, srvVars, fmtVars, sinkVars, lvVars, dsVars, ceVars, sessVars, sseVars, rdVars>>
    \/ WakeUp /\ UNCHANGED <<accVars, engVars, srvVars, fmtVars, sinkVars, lvVars, dsVars, ceVars, sessVars, sseVars, rdVars>>
    \/ \E o \in Outcomes, hdr \in {NoSession} \cup SessionIds :
            Response(o, hdr) /\ UNCHANGED <<accVars, engVars, srvVars, fmtVars, sinkVars, lvVars, dsVars, ceVars, sessVars, sseVars, rdVars>>
    \/ \E hdr \in {NoSession} \cup SessionIds : HandshakeOk(hdr) /\ UNCHANGED <<accVars, engVars, srvVars, fmtVars, sinkVars, lvVars, dsVars, ceVars, sessVars, sseVars, rdVars>>
    \/ HandshakeFail /\ UNCHANGED <<accVars, engVars, srvVars, fmtVars, sinkVars, lvVars, dsVars, ceVars, sessVars, sseVars, rdVars>>

vars == <<clientVars, accVars, engVars, srvVars, fmtVars, sinkVars, lvVars, dsVars, ceVars, sessVars, sseVars, rdVars>>

ClientSpecInit == ClientInit /\ AccIdle /\ EngIdle /\ SrvIdle /\ FmtIdle /\ SinkIdle /\ LvIdle /\ DsIdle /\ CeIdle /\ SessIdle /\ SseIdle /\ RdIdle

ClientSpec == ClientSpecInit /\ [][ClientNext]_vars

\* -------------------------------------------------------------------------
\* Properties of the Remote Tool Client (checked under ClientSpec).

Finished == cpc \in {"done", "failed"}

IsSessionFailure(o) == o.kind = "http" /\ o.status = 400 /\ o.sess

IsRetryableFailure(o) ==
    \/ o.kind = "http" /\ o.status >= 500 /\ o.status < 600
    \/ o.kind = "http" /\ o.status \in {429, 408}
    \/ o.kind \in {"timeout", "network"}

IsNonRetryableFailure(o) ==
    \/ o.kind = "http" /\ o.status >= 400 /\ o.status < 500 /\ o.status \notin {408, 429}
    \/ o.kind \in {"protocol", "parse"} /\ o.code < 0

Replays == Cardinality({i \in DOMAIN how : how[i] = "replay"})

\* C1, as stated: when the first attempt of a call fails with the session
\* signature, the call makes exactly one forced re-handshake and then exactly
\* one replay; a replay that fails with the session signature again ends the
\* call, with no further handshake and no further attempt.
C1_Original ==
    (Len(outcomes) >= 1 /\ IsSessionFailure(outcomes[1])) =>
        /\ handshakes = 1
        /\ Finished => (Replays = 1 /\ how[2] = "replay")
        /\ (Len(outcomes) >= 2 /\ IsSessionFailure(outcomes[2])) =>
               (cpc = "failed" /\ Len(outcomes) = 2 /\ handshakes = 1)

\* C1, amended: when the first attempt of a call fails with the session
\* signature, the call makes exactly one forced re-handshake; if that
\* re-handshake succeeds the call is replayed exactly once, with no backoff
\* delay before the replay; a replay that fails with the session signature
\* again ends the call, with no further handshake and no further attempt.
C1_SessionRemediationOnce ==
    (Len(outcomes) >= 1 /\ IsSessionFailure(outcomes[1])) =>
        /\ handshakes = 1
        /\ Replays <= 1
        /\ (handshakeResult = "ok" /\ Len(how) >= 2) =>
               (how[2] = "replay" /\ ((Len(how) = 2 /\ cpc = "fetch") => delays = <<>>))
        /\ (handshakeResult = "ok" /\ Finished) => Replays = 1
        /\ (Len(outcomes) >= 2 /\ IsSessionFailure(outcomes[2])) =>
               (cpc = "failed" /\ Len(outcomes) = 2 /\ handshakes = 1)

C1_Witness ==
    /\ Len(outcomes) = 2
    /\ IsSessionFailure(outcomes[1])
    /\ IsSessionFailure(outcomes[2])
    /\ handshakeResult = "ok"
    /\ cpc = "failed"

Is503(o) == o.kind = "http" /\ o.status = 503

\* C10: a call whose first two attempts fail with HTTP 503 goes on to a
\* third attempt, and if that attempt succeeds the call returns its result
\* having waited exactly two retry delays (no more than two).
C10_TwoRetriesThenSuccess ==
    /\ (Len(outcomes) >= 1 /\ Is503(outcomes[1]) /\ Len(outcomes) < 2) => ~Finished
    /\ (Len(outcomes) >= 2 /\ Is503(outcomes[1]) /\ Is503(outcomes[2])
            /\ Len(outcomes) < 3) => ~Finished
    /\ (Len(outcomes) >= 3 /\ Is503(outcomes[1]) /\ Is503(outcomes[2])
            /\ outcomes[3].kind = "ok") =>
           (cpc = "done" /\ Len(outcomes) = 3 /\ Len(delays) = 2)

C10_Witness ==
    /\ Len(outcomes) = 3
    /\ Is503(outcomes[1])
    /\ Is503(outcomes[2])
    /\ outcomes[3].kind = "ok"
    /\ cpc = "done"
    /\ delays = <<1000, 2000>>

\* C11: within one call the delay before the backoff retry that follows n
\* earlier backoff retries is min(InitialDelayMs * BackoffMultiplier^n,
\* MaxDelayMs), and the call makes at most MaxRetries backoff retries.
C11_BackoffDelays ==
    /\ Len(delays) <= MaxRetries
    /\ \A i \in DOMAIN delays :
           delays[i] = Min(InitialDelayMs * Pow(BackoffMultiplier, i - 1), MaxDelayMs)

\* C32: an HTTP error answered to the replay that follows a one-shot
\* remediation ends the call, whatever its status: no further attempt, and
\* so no backoff retry, is made after it.
C32_NoRetryAfterRemediation ==
    \A i \in DOMAIN outcomes :
        (how[i] = "replay" /\ outcomes[i].kind = "http") => Len(how) = i

\* C38: one logical call sends at most MaxRetries + 1 HTTP attempts in all,
\* the remediation replay counted among them, and starts at most one forced
\* re-handshake.
C38_AttemptsAndHandshakesBounded ==
    /\ Len(how) <= MaxRetries + 1
    /\ Len(outcomes) <= Len(how)
    /\ handshakes <= 1

\* A call that used every attempt it has, one of them the replay after a
\* re-handshake.
C38_Witness ==
    /\ Finished
    /\ Len(outcomes) = MaxRetries + 1
    /\ Replays = 1
    /\ handshakes = 1

\* C39: whenever no handshake is running, the instance is marked
\* session-initialized only if it holds a session id; a failed handshake
\* leaves it uninitialized without an id, a successful one initialized with
\* the id it obtained.
C39_InitializedOnlyWithSession ==
    ~initializing => (sessionInitialized => sessionId # NoSession)

IsNotAcceptable(o) ==
    o.kind = "http" /\ (o.status = 406 \/ (o.status = 400 /\ o.acc))

\* C12: the attempt that follows a one-shot remediation is sent without a
\* backoff delay, and an attempt that was preceded by a backoff delay starts
\* no remediation (no re-handshake, no targeted replay).
C12_Step ==
    /\ (cpc = "top" /\ isTargetedRetry /\ attempt <= MaxRetries) =>
           (cpc' = "fetch" /\ delays' = delays /\ how' = Append(how, "replay"))
    /\ (cpc = "fetch" /\ how[Len(how)] = "backoff") =>
           /\ cpc' # "handshake"
           /\ handshakes' = handshakes
           /\ targetedRemediationDone' = targetedRemediationDone
           /\ ~isTargetedRetry'
C12_ReplayWithoutBackoff == [][C12_Step]_vars

C12_Witness ==
    /\ how = <<"first", "replay", "backoff">>
    /\ Len(delays) = 1
    /\ Len(outcomes) = 3
    /\ IsSessionFailure(outcomes[3])
    /\ cpc = "failed"

\* C13: when the first attempt of a call fails as not acceptable (HTTP 406,
\* or HTTP 400 with a message that mentions Accept), the call is replayed
\* exactly once, and a replay that fails as not acceptable again ends the call.
C13_AcceptRemediationOnce ==
    (Len(outcomes) >= 1 /\ IsNotAcceptable(outcomes[1])) =>
        /\ Replays <= 1
        /\ Len(how) >= 2 => how[2] = "replay"
        /\ Finished => Replays = 1
        /\ (Len(outcomes) >= 2 /\ IsNotAcceptable(outcomes[2])) =>
               (cpc = "failed" /\ Len(outcomes) = 2 /\ Len(how) = 2)

C13_Witness ==
    /\ Len(outcomes) = 2
    /\ outcomes[1].status = 406
    /\ outcomes[2].status = 406
    /\ how = <<"first", "replay">>
    /\ cpc = "failed"

\* C14: a session failure on any attempt of a call, a backoff retry
\* included, leads to one forced re-handshake of that call, and to one replay
\* when the re-handshake succeeds.
C14_SessionFailureOnAnyAttempt ==
    \A k \in DOMAIN outcomes :
        IsSessionFailure(outcomes[k]) =>
            /\ handshakes = 1
            /\ (handshakeResult = "ok" /\ Finished) => Replays = 1

\* The steps of a call that the client takes by itself: the head of the next
\* loop iteration, the end of a backoff sleep (a timer), and the abort of an
\* attempt's fetch by its timeout (a timer).  The initialize request of
\* _initializeSession carries no abort signal, so nothing of the kind ends a
\* handshake: only the service's answer does.
ClientProgress ==
    /\ BeginAttempt \/ WakeUp \/ Response(TimeoutOutcome, NoSession)
    /\ UNCHANGED <<accVars, engVars, srvVars, fmtVars, sinkVars, lvVars, dsVars, ceVars, sessVars, sseVars, rdVars>>

\* _request under the scheduling the runtime guarantees: timers fire and
\* ready continuations run; the service may answer or not.
ClientLiveSpec == ClientSpecInit /\ [][ClientNext]_vars /\ WF_vars(ClientProgress)

\* C19: every call that was started eventually ends, with a result or with
\* an error, whatever the service answers and also when it never answers.
C19_CallTerminates == (cpc \notin {"idle", "done", "failed"}) ~> Finished

(***************************************************************************)
(* parseToolCallsFromChunks run one chunk at a time over a bounded set of   *)
(* model streams.                                                           *)
(***************************************************************************)

\* The most input_json_delta fragments one tool-use block's JSON is cut into.
MaxFragments == 3

\* {"a":"x y"}   {"a": "x"}   {"a":"x   (the last one never parses)
JsonTexts ==
    {<<"{", "\"", "a", "\"", ":", "\"", "x", " ", "y", "\"", "}">>,
     <<"{", "\"", "a", "\"", ":", " ", "\"", "x", "\"", "}">>,
     <<"{", "\"", "a", "\"", ":", "\"", "x">>}

\* Every way of cutting text into n non-empty consecutive fragments.
NthCut(S, k, len) ==
    IF k = 0 THEN 0
    ELSE IF k > Cardinality(S) THEN len
    ELSE CHOOSE x \in S : Cardinality({y \in S : y < x}) = k - 1
Splits(text, n) ==
    { [k \in 1..n |-> SubSeq(text, NthCut(S, k - 1, Len(text)) + 1, NthCut(S, k, Len(text)))] :
        S \in {T \in SUBSET (1..(Len(text) - 1)) : Cardinality(T) = n - 1} }
\* The fragment sequences of a text; a stream may also open a block's deltas
\* with an empty partial_json.
Fragmentations(text) ==
    (UNION {Splits(text, n) : n \in 1..MaxFragments}) \cup {<<<<>>, text>>}

\* Block-start inputs: none, [], or { a: "o", b: "z" }.
StartInputs ==
    {JsUndefined, JsArray,
     JsObject([k \in {<<"a">>, <<"b">>} |-> IF k = <<"a">> THEN <<"o">> ELSE <<"z">>])}

\* The first tool-use block: start, its fragments, and (closed) its stop.
\* A gateway that sends no index sends none on any chunk of the block.
FirstBlock(idx, inp, frags, closed) ==
    <<ToolUseStart(idx, "toolu_1", "query-datasource", inp)>>
      \o [k \in DOMAIN frags |-> InputJsonDelta(idx, frags[k])]
      \o (IF closed THEN <<BlockStop(idx)>> ELSE <<>>)
FirstBlocks ==
    { FirstBlock(idx, inp, frags, closed) :
        idx \in {1, NoIndex}, inp \in StartInputs,
        frags \in UNION {Fragmentations(t) : t \in JsonTexts}, closed \in BOOLEAN }

\* What follows it: nothing, a second block (closed or left open), or a
\* block start that lacks a name or an id.
SecondBlocks ==
    { <<>>,
      <<ToolUseStart(2, "toolu_2", "list-datasources", JsUndefined), BlockStop(2)>>,
      <<ToolUseStart(2, "toolu_2", "list-datasources", JsUndefined)>>,
      <<ToolUseStart(2, "toolu_2", "", JsUndefined), BlockStop(2)>>,
      <<ToolUseStart(2, "", "list-datasources", JsUndefined), BlockStop(2)>> }

\* A text block comes first, as in a response that explains before it calls.
AccStreams ==
    { <<MessageStart, TextDelta(0, <<"x">>), BlockStop(0)>> \o b1 \o b2 :
        b1 \in FirstBlocks, b2 \in SecondBlocks }

AccInit ==
    /\ ClientInit
    /\ EngIdle
    /\ SrvIdle /\ FmtIdle /\ SinkIdle /\ LvIdle /\ DsIdle /\ CeIdle /\ SessIdle /\ SseIdle /\ RdIdle
    /\ accStream \in AccStreams
    /\ accPos = 1
    /\ accCalls = <<>>
    /\ accIndexMap = <<>>
    /\ accCallMap = <<>>
    /\ accBuffers = <<>>
    /\ accDone = FALSE

\* One iteration of the for-await loop.
AccConsume ==
    /\ ~accDone
    /\ accPos <= Len(accStream)
    /\ LET s == AccStep(AccState(accCalls, accIndexMap, accCallMap, accBuffers),
                        accStream[accPos])
       IN  /\ accCalls' = s.toolCalls
           /\ accIndexMap' = s.indexToToolUseId
           /\ accCallMap' = s.toolCallMap
           /\ accBuffers' = s.inputBuffers
    /\ accPos' = accPos + 1
    /\ UNCHANGED <<accStream, accDone>>

\* The stream has ended: the calls still open are appended and the list is
\* returned.
AccFinish ==
    /\ ~accDone
    /\ accPos > Len(accStream)
    /\ accCalls' = AccFlush(AccState(accCalls, accIndexMap, accCallMap, accBuffers))
    /\ accDone' = TRUE
    /\ UNCHANGED <<accStream, accPos, accIndexMap, accCallMap, accBuffers>>

AccNext ==
    \/ AccConsume /\ UNCHANGED <<clientVars, engVars, srvVars, fmtVars, sinkVars, lvVars, dsVars, ceVars, sessVars, sseVars, rdVars>>
    \/ AccFinish /\ UNCHANGED <<clientVars, engVars, srvVars, fmtVars, sinkVars, lvVars, dsVars, ceVars, sessVars, sseVars, rdVars>>

AccSpec == AccInit /\ [][AccNext]_vars

\* -------------------------------------------------------------------------
\* Properties of the Chunk Accumulator (checked under AccSpec).

IsToolUseStart(c) ==
    c.type = "content_block_start" /\ c.cbType = "tool_use" /\ c.cbId # "" /\ c.cbName # ""
QualifyingStarts == {i \in DOMAIN accStream : IsToolUseStart(accStream[i])}
\* The fragments of the block started at position i, in stream order.
FragmentPositions(i) ==
    {j \in DOMAIN accStream :
        /\ j > i
        /\ accStream[j].type = "content_block_delta"
        /\ accStream[j].dType = "input_json_delta"
        /\ accStream[j].index = accStream[i].index}
RECURSIVE FragmentsFrom(_, _, _)
FragmentsFrom(i, j, out) ==
    IF j > Len(accStream) THEN out
    ELSE FragmentsFrom(i, j + 1,
                       IF j \in FragmentPositions(i) THEN out \o accStream[j].partialJson
                       ELSE out)
AllFragments(i) == FragmentsFrom(i, i + 1, <<>>)
IsClosed(i) ==
    /\ accStream[i].index # NoIndex
    /\ \E j \in DOMAIN accStream :
          j > i /\ accStream[j].type = "content_block_stop"
                /\ accStream[j].index = accStream[i].index
StartInputOf(i) ==
    IF Truthy(accStream[i].cbInput) THEN accStream[i].cbInput ELSE JsObject(EmptyObj)
CallsWithId(id) == {j \in DOMAIN accCalls : accCalls[j].id = id}
CallFor(i) == accCalls[CHOOSE j \in DOMAIN accCalls : accCalls[j].id = accStream[i].cbId]

\* C7: for a tool-use block that is closed by its stop and whose input came
\* in several input_json_delta fragments sharing the block's index, the tool
\* call's input is the block-start input overlaid with the JSON parsed from
\* the concatenation of all those fragments, in order, none left out.
C7_AllFragmentsConcatenated ==
    accDone =>
        \A i \in QualifyingStarts :
            (/\ IsClosed(i)
             /\ Cardinality(FragmentPositions(i)) >= 2
             /\ JsonParse(AllFragments(i)).ok)
            => /\ CallsWithId(accStream[i].cbId) # {}
               /\ CallFor(i).input = Spread(StartInputOf(i), JsonParse(AllFragments(i)).val)

\* C8: every tool-use block start that has a non-empty id and name yields
\* exactly one tool call, with that id and name and no call besides these;
\* when the block's delta JSON does not parse, or the stream ends before the
\* block's stop, the call carries the block-start input.
C8_OneCallPerBlockStart ==
    accDone =>
        /\ Len(accCalls) = Cardinality(QualifyingStarts)
        /\ \A i \in QualifyingStarts :
              /\ Cardinality(CallsWithId(accStream[i].cbId)) = 1
              /\ CallFor(i).name = accStream[i].cbName
              /\ (~IsClosed(i) \/ ~JsonParse(AllFragments(i)).ok)
                    => CallFor(i).input = StartInputOf(i)

\* A stream with two qualifying starts, the first closed with JSON that does
\* not parse and the second never closed, has been accumulated.
C8_Witness ==
    /\ accDone
    /\ Cardinality(QualifyingStarts) = 2
    /\ \E i \in QualifyingStarts :
          IsClosed(i) /\ AllFragments(i) # <<>> /\ ~JsonParse(AllFragments(i)).ok
    /\ \E i \in QualifyingStarts : ~IsClosed(i)
    /\ Len(accCalls) = 2

\* C29: every tool call that parseToolCallsFromChunks returns has a
\* non-empty id, a non-empty name and an input that is a plain object - not
\* an array - whatever the stream of fragments.
C29_HandedCallsWellFormed ==
    accDone =>
        \A i \in DOMAIN accCalls :
            /\ accCalls[i].id # ""
            /\ accCalls[i].name # ""
            /\ accCalls[i].input.t = "object"

(***************************************************************************)
(* ======================  String utilities  ============================= *)
(***************************************************************************)

\* A string is a sequence of one-character strings.  The letters that occur
\* in upper case in the model's field captions and messages:
Lower(c) == CASE c = "S" -> "s" [] c = "P" -> "p" [] OTHER -> c

RECURSIVE TrimStart(_)
TrimStart(str) ==
    IF str # <<>> /\ Head(str) = " " THEN TrimStart(Tail(str)) ELSE str
RECURSIVE TrimEnd(_)
TrimEnd(str) ==
    IF str # <<>> /\ str[Len(str)] = " " THEN TrimEnd(SubSeq(str, 1, Len(str) - 1)) ELSE str
Trim(str) == TrimEnd(TrimStart(str))

\* replace(/\s+/g, ' ')
RECURSIVE CollapseFrom(_, _, _)
CollapseFrom(str, i, out) ==
    IF i > Len(str) THEN out
    ELSE CollapseFrom(str, i + 1,
                      IF str[i] = " " /\ i > 1 /\ str[i - 1] = " " THEN out
                      ELSE Append(out, str[i]))
CollapseSpaces(str) == CollapseFrom(str, 1, <<>>)

normalizeString(str) == CollapseSpaces(Trim([i \in DOMAIN str |-> Lower(str[i])]))

StartsWith(str, prefix) ==
    Len(prefix) <= Len(str) /\ SubSeq(str, 1, Len(prefix)) = prefix
Includes(str, sub) ==
    \E i \in 0..(Len(str) - Len(sub)) : SubSeq(str, i + 1, i + Len(sub)) = sub


\* The matrix of levenshteinDistance, row by row: row i holds matrix[i][0..len2]
\* at positions 1..len2+1.
RECURSIVE LevRow(_, _, _, _, _)
LevRow(prev, row, c, str2, i) ==
    IF Len(row) > Len(str2) THEN row
    ELSE LET j == Len(row)
             cell == IF j = 0 THEN i
                     ELSE IF c = str2[j] THEN prev[j]
                     ELSE Min(Min(prev[j + 1] + 1, row[j] + 1), prev[j] + 1)
         IN  LevRow(prev, Append(row, cell), c, str2, i)
RECURSIVE LevRows(_, _, _, _)
LevRows(prev, str1, str2, i) ==
    IF i > Len(str1) THEN prev
    ELSE LevRows(LevRow(prev, <<>>, str1[i], str2, i), str1, str2, i + 1)
levenshteinDistance(str1, str2) ==
    LevRows([j \in 1..(Len(str2) + 1) |-> j - 1], str1, str2, 1)[Len(str2) + 1]

\* Scores are fractions num/den with den > 0.
Frac(n, d) == [num |-> n, den |-> d]
FracGeq(a, b) == a.num * b.den >= b.num * a.den
FracGt(a, b) == a.num * b.den > b.num * a.den

scoreSimilarity(input, candidate) ==
    LET normalizedInput == normalizeString(input)
        normalizedCandidate == normalizeString(candidate)
        distance == levenshteinDistance(normalizedInput, normalizedCandidate)
        maxLen == IF Len(normalizedInput) >= Len(normalizedCandidate)
                  THEN Len(normalizedInput) ELSE Len(normalizedCandidate)
    IN  IF normalizedInput = normalizedCandidate THEN Frac(1, 1)
        ELSE IF StartsWith(normalizedCandidate, normalizedInput) THEN Frac(4, 5)
        ELSE IF Includes(normalizedCandidate, normalizedInput) THEN Frac(3, 5)
        ELSE IF maxLen = 0 THEN Frac(0, 1)
        ELSE Frac(maxLen - distance, maxLen)

(***************************************************************************)
(* ======================  Field corrections  ============================ *)
(***************************************************************************)

STOP_WORDS ==
    {<<"f", "o", "r">>, <<"t", "h", "e">>, <<"a", "n", "d">>,
     <<"w", "i", "t", "h">>, <<"a", "l", "l">>, <<"a", "n", "y">>,
     <<"a", "r", "e">>, <<"w", "a", "s">>, <<"w", "e", "r", "e">>,
     <<"h", "a", "s">>, <<"h", "a", "v", "e">>, <<"h", "a", "d">>,
     <<"c", "a", "n">>, <<"m", "a", "y">>, <<"n", "o", "t">>,
     <<"b", "u", "t">>, <<"f", "r", "o", "m">>, <<"i", "n", "t", "o">>,
     <<"o", "n", "t", "o">>, <<"o", "v", "e", "r">>, <<"u", "n", "d", "e", "r">>,
     <<"t", "h", "i", "s">>, <<"t", "h", "a", "t">>, <<"t", "h", "e", "s", "e">>,
     <<"t", "h", "o", "s", "e">>}

\* The characters the model's messages use that are not [a-zA-Z0-9].
IsSeparator(c) == c \in {" ", ",", "?", "."}

\* The words of a message: the maximal runs of characters between separators.
RECURSIVE SplitWords(_, _, _, _)
SplitWords(message, i, done, cur) ==
    IF i > Len(message) THEN (IF cur = <<>> THEN done ELSE Append(done, cur))
    ELSE IF IsSeparator(message[i])
         THEN SplitWords(message, i + 1, IF cur = <<>> THEN done ELSE Append(done, cur), <<>>)
         ELSE SplitWords(message, i + 1, done, Append(cur, message[i]))

tokenizeMessage(message) ==
    LET words == SplitWords(message, 1, <<>>, <<>>)
        tok == [i \in DOMAIN words |->
                   [original |-> words[i], normalized |-> normalizeString(words[i])]]
        Keep(t) == Len(t.normalized) >= 3 /\ t.normalized \notin STOP_WORDS
    IN  SelectSeq(tok, Keep)

\* The fieldCaption strings of the query-datasource calls, in call order.
RECURSIVE Flatten(_)
Flatten(seqs) == IF seqs = <<>> THEN <<>> ELSE Head(seqs) \o Flatten(Tail(seqs))
CaptionsOf(tc) ==
    IF tc.name = "query-datasource" /\ "query" \in DOMAIN tc.input.v
    THEN LET fields == tc.input.v.query.fields
             Named(f) == Trim(f.fieldCaption) # <<>>
             kept == SelectSeq(fields, Named)
         IN  [i \in DOMAIN kept |-> kept[i].fieldCaption]
    ELSE <<>>
FieldCaptions(calls) == Flatten([i \in DOMAIN calls |-> CaptionsOf(calls[i])])

NoMatch == [originalToken |-> <<>>, token |-> <<>>, score |-> Frac(0, 1), found |-> FALSE]
\* The best-scoring token for a caption: the first token reaching the score
\* that no later token exceeds.
RECURSIVE BestFrom(_, _, _, _)
BestFrom(tokenData, fieldCaption, i, best) ==
    IF i > Len(tokenData) THEN best
    ELSE LET t == tokenData[i]
             score == scoreSimilarity(t.normalized, fieldCaption)
             threshold == IF Len(t.normalized) <= 3 THEN Frac(9, 10) ELSE Frac(4, 5)
         IN  BestFrom(tokenData, fieldCaption, i + 1,
                      IF Len(t.normalized) >= 3 /\ FracGeq(score, threshold)
                         /\ (~best.found \/ FracGt(score, best.score))
                      THEN [originalToken |-> t.original, token |-> t.normalized,
                            score |-> score, found |-> TRUE]
                      ELSE best)

\* Array.prototype.sort by score, descending; stable.
RECURSIVE InsertByScore(_, _)
InsertByScore(sorted, c) ==
    IF sorted = <<>> THEN <<c>>
    ELSE IF FracGt(c.score, Head(sorted).score) THEN <<c>> \o sorted
    ELSE <<Head(sorted)>> \o InsertByScore(Tail(sorted), c)
RECURSIVE SortFrom(_, _, _)
SortFrom(cs, i, sorted) ==
    IF i > Len(cs) THEN sorted ELSE SortFrom(cs, i + 1, InsertByScore(sorted, cs[i]))
\* One correction per token->fieldCaption pair: the first of the sorted list.
RECURSIVE DedupFrom(_, _, _)
DedupFrom(cs, i, out) ==
    IF i > Len(cs) THEN out
    ELSE DedupFrom(cs, i + 1,
                   IF \E j \in 1..(i - 1) :
                         cs[j].token = cs[i].token /\ cs[j].fieldCaption = cs[i].fieldCaption
                   THEN out
                   ELSE Append(out, cs[i]))

detectFieldCorrections(message, calls) ==
    LET tokenData == tokenizeMessage(message)
        captions == FieldCaptions(calls)
        normalizedUserMessage == normalizeString(message)
        Unmentioned(cap) == ~Includes(normalizedUserMessage, normalizeString(cap))
        candidates == SelectSeq(captions, Unmentioned)
        matches == [i \in DOMAIN candidates |->
                       LET best == BestFrom(tokenData, candidates[i], 1, NoMatch)
                       IN  [originalToken |-> best.originalToken,
                            token |-> best.token,
                            fieldCaption |-> candidates[i],
                            score |-> best.score,
                            found |-> best.found]]
        Found(m) == m.found
    IN  IF Trim(message) = <<>> \/ calls = <<>> \/ tokenData = <<>> THEN <<>>
        ELSE DedupFrom(SortFrom(SelectSeq(matches, Found), 1, <<>>), 1, <<>>)

\* Text is a sequence of pieces; its string is their concatenation.  The note
\* is the empty text where the code returns null.
RECURSIVE JoinParts(_)
JoinParts(cs) ==
    IF cs = <<>> THEN <<>>
    ELSE <<"\"">> \o Head(cs).originalToken \o <<"\" as \"">> \o Head(cs).fieldCaption
           \o <<"\"">> \o (IF Len(cs) > 1 THEN <<"; ">> ELSE <<>>) \o JoinParts(Tail(cs))
buildCorrectionNote(corrections) ==
    IF corrections = <<>> THEN <<>>
    ELSE <<"\n\nNote: Interpreted ">> \o JoinParts(corrections) \o <<".">>

(***************************************************************************)
(* ====================  Orchestration Engine  =========================== *)
(***************************************************************************)

\* String.prototype.trim() of an identifier leaves nothing: identifiers are
\* atoms here, of which "" and " " are the blank ones.
IsBlankId(id) == id \in {"", " "}

\* A tool result as the engine keeps it; content stands for the JSON text of
\* either the remote result or of { error, recoverySuggestions }.
ToolResult(id, content, isError) ==
    [tool_use_id |-> id, content |-> content, isError |-> isError]
ErrorContent == "{\"error\":...}"
DataContent == "{...}"

\* formatToolResult: thrown is set where the code throws on a blank id.
formatToolResult(toolUseId, content, isError) ==
    [thrown |-> IsBlankId(toolUseId), value |-> ToolResult(toolUseId, content, isError)]

\* The request a tool call makes of the Remote Tool Client.
McpRequest(tool, ds) == [tool |-> tool, datasourceLuid |-> ds]

HasProp(input, k) == k \in DOMAIN input.v
\* String(input.datasourceLuid || '').trim()
LuidOrEmpty(input) == IF HasProp(input, "datasourceLuid") THEN input.v.datasourceLuid ELSE ""
\* String(input.datasourceLuid)
LuidString(input) ==
    IF HasProp(input, "datasourceLuid") THEN input.v.datasourceLuid ELSE "undefined"

LockCheckFails_QueryOnly(tc, locked) ==
    /\ locked # ""
    /\ \/ tc.name = "query-datasource" /\ LuidOrEmpty(tc.input) # locked
       \/ tc.name = "list-datasources"

\* The datasource restriction at the head of executeToolCall throws.
LockCheckFails(tc, locked) ==
    /\ locked # ""
    /\ \/ /\ tc.name \in {"query-datasource", "get-datasource-metadata"}
          /\ LuidOrEmpty(tc.input) # locked
       \/ tc.name = "list-datasources"

\* The switch of executeToolCall up to the point where it awaits the Remote
\* Tool Client: the request it makes, or none where it throws first.
NoRequest == McpRequest("", "")
DispatchedRequest(tc) ==
    CASE tc.name = "list-datasources" -> McpRequest("list-datasources", "")
      [] tc.name = "get-datasource-metadata" ->
            IF IsBlankId(LuidString(tc.input)) THEN NoRequest
            ELSE McpRequest("get-datasource-metadata", LuidString(tc.input))
      [] tc.name = "query-datasource" ->
            IF IsBlankId(LuidString(tc.input)) \/ ~HasProp(tc.input, "query") THEN NoRequest
            ELSE McpRequest("query-datasource", LuidString(tc.input))
      [] tc.name = "get-workbook" -> McpRequest("get-workbook", "")
      [] tc.name = "list-views" -> McpRequest("list-views", "")
      [] OTHER -> NoRequest

\* The catch block's metadata lookup for typo suggestions: only after the
\* remote rejected a query-datasource call with Invalid Params (-32602).
SuggestionLookup(tc, remote) ==
    IF /\ remote = "invalidParams"
       /\ tc.name = "query-datasource"
       /\ ~IsBlankId(LuidOrEmpty(tc.input))
       /\ HasProp(tc.input, "query")
    THEN <<McpRequest("get-datasource-metadata", LuidOrEmpty(tc.input))>>
    ELSE <<>>

ExecResult(res, reqs) == [thrown |-> res.thrown, result |-> res.value, requests |-> reqs]

executeToolCall_UnknownSucceeds(tc, locked, remote) ==
    IF LockCheckFails(tc, locked)
    THEN ExecResult(formatToolResult(tc.id, ErrorContent, TRUE), <<>>)
    ELSE IF DispatchedRequest(tc) = NoRequest
    THEN ExecResult(formatToolResult(tc.id, DataContent, FALSE), <<>>)
    ELSE IF remote = "ok"
    THEN ExecResult(formatToolResult(tc.id, DataContent, FALSE), <<DispatchedRequest(tc)>>)
    ELSE ExecResult(formatToolResult(tc.id, ErrorContent, TRUE),
                    <<DispatchedRequest(tc)>> \o SuggestionLookup(tc, remote))

\* executeToolCall; remote is how the Remote Tool Client answers the
\* dispatched request: "ok", "fail", or "invalidParams".
executeToolCall(tc, locked, remote) ==
    IF LockCheckFails(tc, locked) \/ DispatchedRequest(tc) = NoRequest
    THEN ExecResult(formatToolResult(tc.id, ErrorContent, TRUE), <<>>)
    ELSE IF remote = "ok"
    THEN ExecResult(formatToolResult(tc.id, DataContent, FALSE), <<DispatchedRequest(tc)>>)
    ELSE ExecResult(formatToolResult(tc.id, ErrorContent, TRUE),
                    <<DispatchedRequest(tc)>> \o SuggestionLookup(tc, remote))

\* Transcript messages.
Message(role, text, uses, results) ==
    [role |-> role, text |-> text, toolUses |-> uses, toolResults |-> results]
buildUserMessage(text) == Message("user", text, <<>>, <<>>)
\* The validation of buildAssistantMessageWithToolCalls passes.
ToolCallsValid(calls) ==
    /\ calls # <<>>
    /\ \A i \in DOMAIN calls :
          /\ ~IsBlankId(calls[i].id)
          /\ ~IsBlankId(calls[i].name)
          /\ calls[i].input.t = "object"
buildAssistantMessageWithToolCalls(calls) == Message("assistant", <<>>, calls, <<>>)
\* The validation of buildUserMessageWithToolResults passes.
ToolResultsValid(results) ==
    /\ results # <<>>
    /\ \A i \in DOMAIN results : ~IsBlankId(results[i].tool_use_id)

BuildUserMessageWithToolResults_ErrorsDropped(results) ==
    LET IsData(r) == ~r.isError
        kept == SelectSeq(results, IsData)
    IN  Message("user", <<>>, <<>>,
                [i \in DOMAIN kept |->
                    [tool_use_id |-> kept[i].tool_use_id, content |-> kept[i].content]])

\* isError is not serialised into the tool_result block.
buildUserMessageWithToolResults(results) ==
    Message("user", <<>>, <<>>,
            [i \in DOMAIN results |->
                [tool_use_id |-> results[i].tool_use_id, content |-> results[i].content]])

\* Events offered to the Progress Sink.
Event_NoId(ty, text, id) == [event |-> ty, text |-> text, id |-> ""]
Event(ty, text, id) == [event |-> ty, text |-> text, id |-> id]

\* extractAnswerText; the empty text where the code returns null.
extractAnswerText(c) ==
    IF c.type = "content_block_delta" /\ c.dType = "text_delta" THEN c.text
    ELSE IF c.type = "content_block_start" /\ c.cbType = "text" THEN c.text
    ELSE <<>>

\* streamAnswerChunks over the chunks read before the stream ended or broke:
\* the answer_chunk events, and the accumulated text.
AnswerChunkEvents_Restart(chunks) ==
    LET HasText(c) == extractAnswerText(c) # <<>>
        kept == SelectSeq(chunks, HasText)
    IN  [i \in DOMAIN kept |-> Event("answer_chunk", extractAnswerText(kept[i]), "")]
          \o <<Event("answer_start", <<>>, "")>>
AnswerChunkEvents(chunks) ==
    LET HasText(c) == extractAnswerText(c) # <<>>
        kept == SelectSeq(chunks, HasText)
    IN  [i \in DOMAIN kept |-> Event("answer_chunk", extractAnswerText(kept[i]), "")]
AnswerText(chunks) == Flatten([i \in DOMAIN chunks |-> extractAnswerText(chunks[i])])

\* The note appended to a streamed answer.
CorrectionNote(message, calls) ==
    IF calls # <<>> THEN buildCorrectionNote(detectFieldCorrections(message, calls)) ELSE <<>>

LoopContinues_OneMore(iter, maxIterations) == iter <= maxIterations

\* while (iteration < maxIter)
LoopContinues(iter, maxIterations) == iter < maxIterations

\* -------------------------------------------------------------------------
\* The inputs of a run and the responses the Model Client and the Remote
\* Tool Client may produce.

\* The most rounds a run may be given (maxIterations).
MaxRounds == 2

Sales == <<"S", "a", "l", "e", "s">>
\* "total salez" (a misspelt field) and "total sales".
UserMessages ==
    {<<"t", "o", "t", "a", "l", " ", "s", "a", "l", "e", "z">>,
     <<"t", "o", "t", "a", "l", " ", "s", "a", "l", "e", "s">>}
\* "": the run is not locked to a datasource.
LockChoices == {"", "ds1"}

QueryInput(ds, captions) ==
    JsObject([datasourceLuid |-> ds,
              query |-> [fields |-> [i \in DOMAIN captions |-> [fieldCaption |-> captions[i]]]]])

\* The tool-use blocks of the model's tool-requesting responses.
CallsQuery == <<ToolCall("toolu_1", "query-datasource", QueryInput("ds1", <<Sales>>))>>
CallsElsewhere ==
    <<ToolCall("toolu_1", "query-datasource", QueryInput("ds2", <<Sales>>)),
      ToolCall("toolu_2", "list-datasources", JsObject(EmptyObj))>>
CallsUnknown ==
    <<ToolCall("toolu_1", "no-such-tool", JsObject(EmptyObj)),
      ToolCall("toolu_2", "get-datasource-metadata", JsObject([datasourceLuid |-> "ds2"]))>>
CallsInvalid ==
    <<ToolCall("toolu_1", "query-datasource", JsObject([datasourceLuid |-> "ds1"])),
      ToolCall("toolu_2", "query-datasource", QueryInput("ds1", <<Sales>>))>>
ResponseCalls == {CallsQuery, CallsElsewhere, CallsUnknown, CallsInvalid}

TextBlockStart(idx, tx) ==
    Chunk("content_block_start", idx, "text", "", "", JsUndefined, "", <<>>, tx)
\* The stream of a response made of the given tool-use blocks, each complete
\* at its start chunk.
ToolStream(calls) ==
    <<MessageStart>>
      \o Flatten([i \in DOMAIN calls |->
                    <<ToolUseStart(i, calls[i].id, calls[i].name, calls[i].input), BlockStop(i)>>])
      \o <<MessageStop>>
StreamSplitText ==
    <<MessageStart, TextBlockStart(0, <<>>), TextDelta(0, <<"Total">>),
      TextDelta(0, <<" is 5">>), BlockStop(0), MessageStop>>
StreamStartText ==
    <<MessageStart, TextBlockStart(0, <<"Sum: ">>), TextDelta(0, <<>>),
      TextDelta(0, <<"5">>), BlockStop(0), MessageStop>>
DiscoveryStreams == {StreamSplitText} \cup {ToolStream(c) : c \in ResponseCalls}
AnswerStreams == {StreamSplitText, StreamStartText, ToolStream(CallsQuery)}
\* A stream that breaks does so after this many chunks have been read.
BreakAfter == 3

RemoteOutcomes == {"ok", "fail", "invalidParams"}

\* -------------------------------------------------------------------------
\* ToolCallingLoop.execute.  epc is where the run is suspended:
\*   "discover"  awaiting the Model Client's response of a round
\*   "tools"     awaiting the next tool call of the round
\*   "answer"    awaiting the re-sent request of a round without tool calls
\*   "partial"   awaiting the partial-answer request after the last round
\*   "done" / "failed" / "crashed"   execute returned / threw after an error
\*               event / threw without one


\* The head of the while loop after the transcript has become msgs: either
\* the next round's request or, the rounds being used up, the partial-answer
\* request.
\* An entry of modelCallLog records how many events had been emitted when
\* the request was made (nEvents), and an entry of execLog the position of
\* the call's tool_call_start among the events.
LoopTop_StartOnce(iter, mi, evs, msgs) ==
    IF LoopContinues(iter, mi)
    THEN /\ iteration' = iter + 1
         /\ events' = IF iter = 0 THEN Append(evs, Event("reasoning_start", <<>>, ""))
                                   ELSE evs
         /\ modelCallLog' = Append(modelCallLog, [kind |-> "discover", nMsgs |-> Len(msgs),
                                                  nEvents |-> Len(evs) + 1])
         /\ epc' = "discover"
    ELSE /\ iteration' = iter
         /\ events' = Append(evs, Event("answer_start", <<>>, ""))
         /\ modelCallLog' = Append(modelCallLog, [kind |-> "partial", nMsgs |-> Len(msgs),
                                                  nEvents |-> Len(evs) + 1])
         /\ epc' = "partial"

LoopTop_GiveUp(iter, mi, evs, msgs) ==
    IF LoopContinues(iter, mi)
    THEN /\ iteration' = iter + 1
         /\ events' = Append(evs, Event("reasoning_start", <<>>, ""))
         /\ modelCallLog' = Append(modelCallLog, [kind |-> "discover", nMsgs |-> Len(msgs),
                                                  nEvents |-> Len(evs) + 1])
         /\ epc' = "discover"
    ELSE /\ iteration' = iter
         /\ events' = Append(evs, Event("error", <<>>, ""))
         /\ modelCallLog' = modelCallLog
         /\ epc' = "failed"

LoopTop(iter, mi, evs, msgs) ==
    IF LoopContinues(iter, mi)
    THEN /\ iteration' = iter + 1
         /\ events' = Append(evs, Event("reasoning_start", <<>>, ""))
         /\ modelCallLog' = Append(modelCallLog, [kind |-> "discover", nMsgs |-> Len(msgs),
                                                  nEvents |-> Len(evs) + 1])
         /\ epc' = "discover"
    ELSE /\ iteration' = iter
         /\ events' = Append(evs, Event("answer_start", <<>>, ""))
         /\ modelCallLog' = Append(modelCallLog, [kind |-> "partial", nMsgs |-> Len(msgs),
                                                  nEvents |-> Len(evs) + 1])
         /\ epc' = "partial"

Execute(msg, lock, mi) ==
    /\ epc = "idle"
    /\ Trim(msg) # <<>>
    /\ userMessage' = msg
    /\ lockedDatasourceLuid' = lock
    /\ maxIter' = mi
    /\ messages' = <<buildUserMessage(Trim(msg))>>
    /\ LoopTop(0, mi, <<>>, <<buildUserMessage(Trim(msg))>>)
    /\ UNCHANGED <<toolCalls, toolResults, allToolCalls, allToolResults, mcpRequests,
                   answer, modelFailures, execLog>>

ModelFailure == [calls |-> Len(modelCallLog), requests |-> Len(mcpRequests)]
ErrorEvent == Event("error", <<>>, "")

\* streamToolCalling rejects: the request could not be issued, or the
\* gateway answered with an error status.
DiscoveryRequestFails ==
    /\ epc = "discover"
    /\ modelFailures' = Append(modelFailures, ModelFailure)
    /\ events' = Append(events, ErrorEvent)
    /\ epc' = "failed"
    /\ UNCHANGED <<userMessage, lockedDatasourceLuid, maxIter, iteration, messages,
                   toolCalls, toolResults, allToolCalls, allToolResults, modelCallLog,
                   mcpRequests, answer, execLog>>

\* streamToolCalling resolves with a stream, which parseToolCallsFromChunks
\* reads to its end, or until it breaks.
DiscoveryResponse(stream, breaks) ==
    /\ epc = "discover"
    /\ LET calls == IF breaks THEN <<>> ELSE parseToolCallsFromChunks(stream)
       IN  /\ modelFailures' = IF breaks THEN Append(modelFailures, ModelFailure)
                                         ELSE modelFailures
           /\ IF calls = <<>>
              THEN /\ events' = Append(events, Event("answer_start", <<>>, ""))
                   /\ modelCallLog' = Append(modelCallLog, [kind |-> "answer", nMsgs |-> Len(messages),
                                                             nEvents |-> Len(events) + 1])
                   /\ epc' = "answer"
                   /\ UNCHANGED <<toolCalls, toolResults, allToolCalls>>
              ELSE /\ toolCalls' = calls
                   /\ toolResults' = <<>>
                   /\ allToolCalls' = allToolCalls \o calls
                   /\ epc' = "tools"
                   /\ UNCHANGED <<events, modelCallLog>>
    /\ UNCHANGED <<userMessage, lockedDatasourceLuid, maxIter, iteration, messages,
                   allToolResults, mcpRequests, answer, execLog>>

\* One pass of the for loop over the round's tool calls; after the last one
\* the transcript is extended and the loop head is reached again.  remote is
\* drawn only where a request is dispatched.
ExecuteNextTool(remote) ==
    /\ epc = "tools"
    /\ executeToolCall(toolCalls[Len(toolResults) + 1], lockedDatasourceLuid, remote).requests = <<>>
          => remote = "ok"
    /\ LET tc == toolCalls[Len(toolResults) + 1]
           r == executeToolCall(tc, lockedDatasourceLuid, remote)
           evs == events \o <<Event("tool_call_start", <<>>, tc.id),
                              Event("tool_call_complete", <<>>, tc.id)>>
           results == Append(toolResults, r.result)
           msgs == messages \o <<buildAssistantMessageWithToolCalls(toolCalls),
                                 buildUserMessageWithToolResults(results)>>
       IN  /\ mcpRequests' = mcpRequests \o r.requests
           /\ execLog' = Append(execLog, [call |-> tc, remote |-> remote,
                                               nEvents |-> Len(events) + 1])
           /\ allToolResults' = IF r.thrown THEN allToolResults
                                            ELSE Append(allToolResults, r.result)
           /\ IF r.thrown
              THEN /\ events' = Append(events, Event("tool_call_start", <<>>, tc.id))
                   /\ epc' = "crashed"
                   /\ UNCHANGED <<toolResults, messages, iteration, modelCallLog>>
              ELSE IF Len(results) < Len(toolCalls)
              THEN /\ toolResults' = results
                   /\ events' = evs
                   /\ UNCHANGED <<epc, messages, iteration, modelCallLog>>
              ELSE IF ~(ToolCallsValid(toolCalls) /\ ToolResultsValid(results))
              THEN /\ toolResults' = results
                   /\ events' = evs
                   /\ epc' = "crashed"
                   /\ UNCHANGED <<messages, iteration, modelCallLog>>
              ELSE /\ toolResults' = results
                   /\ messages' = msgs
                   /\ LoopTop(iteration, maxIter, evs, msgs)
    /\ UNCHANGED <<userMessage, lockedDatasourceLuid, maxIter, toolCalls, allToolCalls,
                   answer, modelFailures>>

\* The answer request (the re-sent one, or the partial-answer one) rejects.
AnswerRequestFails ==
    /\ epc \in {"answer", "partial"}
    /\ modelFailures' = Append(modelFailures, ModelFailure)
    /\ events' = Append(events, ErrorEvent)
    /\ epc' = "failed"
    /\ UNCHANGED <<userMessage, lockedDatasourceLuid, maxIter, iteration, messages,
                   toolCalls, toolResults, allToolCalls, allToolResults, modelCallLog,
                   mcpRequests, answer, execLog>>

\* The answer request resolves with a stream, which streamAnswerChunks
\* reads to its end, or until it breaks.
AnswerResponse(stream, breaks) ==
    /\ epc \in {"answer", "partial"}
    /\ IF breaks
       THEN /\ events' = events \o AnswerChunkEvents(SubSeq(stream, 1, BreakAfter))
                                \o <<ErrorEvent>>
            /\ modelFailures' = Append(modelFailures, ModelFailure)
            /\ epc' = "failed"
            /\ UNCHANGED answer
       ELSE LET final == AnswerText(stream) \o CorrectionNote(userMessage, allToolCalls)
            IN  /\ answer' = final
                /\ events' = events \o AnswerChunkEvents(stream)
                                    \o <<Event("answer_complete", final, "")>>
                /\ epc' = "done"
                /\ UNCHANGED modelFailures
    /\ UNCHANGED <<userMessage, lockedDatasourceLuid, maxIter, iteration, messages,
                   toolCalls, toolResults, allToolCalls, allToolResults, modelCallLog,
                   mcpRequests, execLog>>

Next ==
    \/ \E msg \in UserMessages, lock \in LockChoices, mi \in 0..MaxRounds :
            Execute(msg, lock, mi) /\ UNCHANGED <<clientVars, accVars, srvVars, fmtVars, sinkVars, lvVars, dsVars, ceVars, sessVars, sseVars, rdVars>>
    \/ DiscoveryRequestFails /\ UNCHANGED <<clientVars, accVars, srvVars, fmtVars, sinkVars, lvVars, dsVars, ceVars, sessVars, sseVars, rdVars>>
    \/ \E stream \in DiscoveryStreams, breaks \in BOOLEAN :
            DiscoveryResponse(stream, breaks) /\ UNCHANGED <<clientVars, accVars, srvVars, fmtVars, sinkVars, lvVars, dsVars, ceVars, sessVars, sseVars, rdVars>>
    \/ \E remote \in RemoteOutcomes :
            ExecuteNextTool(remote) /\ UNCHANGED <<clientVars, accVars, srvVars, fmtVars, sinkVars, lvVars, dsVars, ceVars, sessVars, sseVars, rdVars>>
    \/ AnswerRequestFails /\ UNCHANGED <<clientVars, accVars, srvVars, fmtVars, sinkVars, lvVars, dsVars, ceVars, sessVars, sseVars, rdVars>>
    \/ \E stream \in AnswerStreams, breaks \in BOOLEAN :
            AnswerResponse(stream, breaks) /\ UNCHANGED <<clientVars, accVars, srvVars, fmtVars, sinkVars, lvVars, dsVars, ceVars, sessVars, sseVars, rdVars>>

Init == ClientInit /\ AccIdle /\ EngIdle /\ SrvIdle /\ FmtIdle /\ SinkIdle /\ LvIdle /\ DsIdle /\ CeIdle /\ SessIdle /\ SseIdle /\ RdIdle

Spec == Init /\ [][Next]_vars

\* -------------------------------------------------------------------------
\* Properties of the Orchestration Engine (checked under Spec).

IsReasoningStart(e) == e.event = "reasoning_start"
IsDiscovery(c) == c.kind = "discover"
IsPartial(c) == c.kind = "partial"
IsAssistant(m) == m.role = "assistant"
\* Rounds in which the model requested tools and they were all executed.
ToolRounds == Len(SelectSeq(messages, IsAssistant))

\* C2: for every maxRounds >= 1 the engine starts at most maxRounds rounds;
\* when the model has requested tools in all of them, what follows is the
\* partial-answer request and not a further round.
C2_AtMostMaxRounds ==
    (epc # "idle" /\ maxIter >= 1) =>
        /\ iteration <= maxIter
        /\ Len(SelectSeq(events, IsReasoningStart)) <= maxIter
        /\ Len(SelectSeq(modelCallLog, IsDiscovery)) <= maxIter
        /\ ToolRounds <= maxIter
        /\ ToolRounds = maxIter =>
              /\ Len(SelectSeq(modelCallLog, IsDiscovery)) = maxIter
              /\ Len(SelectSeq(modelCallLog, IsPartial)) = 1
              /\ modelCallLog[Len(modelCallLog)].kind = "partial"
              /\ epc \in {"partial", "done", "failed"}

\* A run given two rounds used both for tool calls and returned the partial
\* answer.
C2_Witness ==
    /\ maxIter = 2
    /\ ToolRounds = 2
    /\ epc = "done"
    /\ Len(SelectSeq(modelCallLog, IsPartial)) = 1

\* A call that names a datasource other than the locked one.
NamesOtherDatasource(tc) ==
    /\ "datasourceLuid" \in DOMAIN tc.input.v
    /\ tc.input.v.datasourceLuid # lockedDatasourceLuid
BreaksLock(tc) == NamesOtherDatasource(tc) \/ tc.name = "list-datasources"

IsAnswerChunk(e) == e.event = "answer_chunk"
IsAnswerComplete(e) == e.event = "answer_complete"
ChunkTexts ==
    LET chunks == SelectSeq(events, IsAnswerChunk)
    IN  Flatten([i \in DOMAIN chunks |-> chunks[i].text])

\* C4: in every run that returns an answer, the concatenation of the texts of
\* the answer_chunk events equals the final answer text, which is both the
\* text of answer_complete and the value execute returns.
C4_ChunksConcatenateToAnswer ==
    epc = "done" =>
        /\ ChunkTexts = answer
        /\ \A i \in DOMAIN events : IsAnswerComplete(events[i]) => events[i].text = answer

KnownTools ==
    {"list-datasources", "get-datasource-metadata", "query-datasource",
     "get-workbook", "list-views"}
\* The call failed: the remote rejected it, its input was not valid, the
\* tool is unknown, or the lock forbids it.
CallFailed(e) ==
    \/ e.call.name \notin KnownTools
    \/ e.call.name = "query-datasource" /\ "query" \notin DOMAIN e.call.input.v
    \/ lockedDatasourceLuid # "" /\ BreaksLock(e.call)
    \/ e.remote # "ok"
\* The tool_result blocks of the transcript, in order.
TranscriptResults ==
    Flatten([k \in DOMAIN messages |-> messages[k].toolResults])
TranscriptUses ==
    Flatten([k \in DOMAIN messages |-> messages[k].toolUses])
DiscoveriesUpTo(j) ==
    Len(SelectSeq(SubSeq(modelCallLog, 1, j), IsDiscovery))

C6_ModelFailureIsTerminal ==
    modelFailures # <<>> =>
        /\ epc = "failed"
        /\ events[Len(events)].event = "error"
        /\ Len(modelCallLog) = modelFailures[1].calls
        /\ Len(mcpRequests) = modelFailures[1].requests


(***************************************************************************)
(* ===========  Client instances shared by concurrent calls  ============= *)
(***************************************************************************)

InitializeSession_NoCoalesce(cl, force) ==
    IF ~force /\ cl.sessionInitialized /\ cl.sessionId # NoSession
    THEN [cl |-> cl, fetch |-> FALSE, wait |-> FALSE]
    ELSE LET reset == IF force
                      THEN [cl EXCEPT !.sessionId = NoSession, !.sessionInitialized = FALSE]
                      ELSE cl
         IN  [cl |-> [reset EXCEPT !.initializing = TRUE,
                                   !.inflight = cl.inflight + 1],
              fetch |-> TRUE, wait |-> TRUE]

\* _initializeSession up to its first await.  cl: the instance after it;
\* fetch: an initialize request was issued; wait: the caller is left awaiting
\* the handshake in flight.
_initializeSession(cl, force) ==
    IF cl.initializing
    THEN [cl |-> cl, fetch |-> FALSE, wait |-> TRUE]
    ELSE IF ~force /\ cl.sessionInitialized /\ cl.sessionId # NoSession
    THEN [cl |-> cl, fetch |-> FALSE, wait |-> FALSE]
    ELSE LET reset == IF force
                      THEN [cl EXCEPT !.sessionId = NoSession, !.sessionInitialized = FALSE]
                      ELSE cl
         IN  [cl |-> [reset EXCEPT !.initializing = TRUE,
                                   !.inflight = cl.inflight + 1],
              fetch |-> TRUE, wait |-> TRUE]

\* The attempt of a call is put on the wire: the headers are built from the
\* instance's session id, then fetch is called.
Send(cl, call) ==
    [call EXCEPT !.pc = "fetch", !.sent = cl.sessionId, !.err = NoError,
                 !.peer = FALSE]

\* The instance after the Mcp-Session-Id header of a response was read.
Capture(cl, hdr) ==
    IF hdr # NoSession /\ hdr # cl.sessionId
    THEN [cl EXCEPT !.sessionId = hdr, !.sessionInitialized = TRUE]
    ELSE cl

Active(c) == callers[c].pc \notin {"idle", "done", "failed"}

\* Calls on the instance of a run follow one another (the engine awaits each
\* tool call); calls on the module-level instance may overlap.
MayCall(c, k) ==
    /\ callers[c].pc = "idle"
    /\ clients[k].made
    /\ k # 1 => \A d \in Callers : Active(d) => callers[d].client # k

\* A call that has ended.
Ended(pc) == [IdleCall EXCEPT !.pc = pc]

\* continue / throw, as decided for an error, up to the next await.
Proceed(call, cl, d) ==
    CASE d.act = "retry" ->
            [call EXCEPT !.pc = "sleep", !.attempt = call.attempt + 1,
                         !.sent = NoSession, !.peer = FALSE]
      [] d.act = "targeted" ->
            Send(cl, [call EXCEPT !.attempt = call.attempt + 1, !.done = TRUE])
      [] OTHER -> Ended("failed")

\* new ToolCallingLoop() constructs an instance for its run, and the first
\* tool call of the run is sent through it.
RunToolCall(c) ==
    /\ callers[c].pc = "idle"
    /\ \E k \in Clients \ {1} :
          /\ ~clients[k].made
          /\ \A j \in Clients \ {1} : j < k => clients[j].made
          /\ LET late == \E j \in Clients \ {1} :
                             clients[j].made /\ clients[j].sessionId # NoSession
                 cl == NewClient(TRUE, late)
             IN  /\ clients' = [clients EXCEPT ![k] = cl]
                 /\ callers' = [callers EXCEPT ![c] = Send(cl, [IdleCall EXCEPT !.client = k])]

\* A further _request on an instance that exists.
CallStart(c, k) ==
    /\ MayCall(c, k)
    /\ callers' = [callers EXCEPT ![c] = Send(clients[k], [IdleCall EXCEPT !.client = k])]
    /\ UNCHANGED clients

\* testConnection, up to its first await.
TestStart(c, k) ==
    /\ MayCall(c, k)
    /\ LET cl == clients[k]
           call == [IdleCall EXCEPT !.client = k]
           r == _initializeSession(cl, FALSE)
       IN  IF ~cl.sessionInitialized
           THEN /\ clients' = [clients EXCEPT ![k] = r.cl]
                /\ callers' = [callers EXCEPT ![c] =
                       IF r.wait THEN [call EXCEPT !.pc = "init"] ELSE Send(r.cl, call)]
           ELSE /\ callers' = [callers EXCEPT ![c] = Send(cl, call)]
                /\ UNCHANGED clients

\* The backoff sleep of a call is over: its next attempt is sent.
CallWake(c) ==
    /\ callers[c].pc = "sleep"
    /\ callers' = [callers EXCEPT ![c] = Send(clients[callers[c].client], callers[c])]
    /\ UNCHANGED clients

\* The fetch of the attempt of call c settles with outcome o and header hdr.
CallResponse(c, o, hdr) ==
    /\ callers[c].pc = "fetch"
    /\ o.kind \in {"timeout", "network"} => hdr = NoSession
    /\ LET call == callers[c]
           k == call.client
           cap == Capture(clients[k], hdr)
           d == HandleOutcome(o, call.attempt, call.done)
           r == _initializeSession(cap, TRUE)
       IN  IF o.kind = "ok"
           THEN /\ clients' = [clients EXCEPT ![k] = cap]
                /\ callers' = [callers EXCEPT ![c] = Ended("done")]
           ELSE IF d.act = "handshake"
           THEN /\ clients' = [clients EXCEPT ![k] =
                       [r.cl EXCEPT !.multiplied = cap.multiplied \/ (r.fetch /\ call.peer)]]
                /\ callers' = [e \in Callers |->
                       IF e = c
                       THEN [call EXCEPT !.pc = "handshake", !.err = d.err, !.peer = FALSE]
                       ELSE IF /\ r.fetch
                               /\ callers[e].client = k
                               /\ callers[e].pc = "fetch"
                               /\ callers[e].sent = call.sent
                            THEN [callers[e] EXCEPT !.peer = TRUE]
                            ELSE callers[e]]
           ELSE /\ clients' = [clients EXCEPT ![k] = cap]
                /\ callers' = [callers EXCEPT ![c] = Proceed(call, cap, d)]

\* What a call awaiting the handshake of its instance does when the handshake
\* settles: after a re-handshake the call is replayed (or, the handshake
\* having failed, its error is handled further); testConnection goes on to
\* its _request, or returns false.
Resume(call, cl, ok) ==
    IF call.pc = "handshake"
    THEN IF ok THEN Proceed(call, cl, Decision("targeted", call.err))
         ELSE Proceed(call, cl, AcceptRemediation(call.err, call.attempt, call.done))
    ELSE IF ok THEN Send(cl, call)
         ELSE Ended("failed")

Awaiting(c, k) ==
    callers[c].client = k /\ callers[c].pc \in {"init", "handshake"}

\* The initialize request of instance k succeeded with header hdr.
HsOk(k, hdr) ==
    /\ clients[k].inflight > 0
    /\ LET cl == [clients[k] EXCEPT
                     !.sessionId = IF hdr # NoSession THEN hdr ELSE clients[k].sessionId,
                     !.sessionInitialized = TRUE,
                     !.initializing = FALSE,
                     !.inflight = clients[k].inflight - 1,
                     !.shaken = clients[k].shaken \/ hdr # NoSession]
       IN  /\ clients' = [clients EXCEPT ![k] = cl]
           /\ callers' = [c \in Callers |->
                  IF Awaiting(c, k) THEN Resume(callers[c], cl, TRUE) ELSE callers[c]]

\* The initialize request of instance k failed.
HsFail(k) ==
    /\ clients[k].inflight > 0
    /\ LET cl == [clients[k] EXCEPT
                     !.sessionId = NoSession,
                     !.sessionInitialized = FALSE,
                     !.initializing = FALSE,
                     !.inflight = clients[k].inflight - 1]
       IN  /\ clients' = [clients EXCEPT ![k] = cl]
           /\ callers' = [c \in Callers |->
                  IF Awaiting(c, k) THEN Resume(callers[c], cl, FALSE) ELSE callers[c]]

ServerNext ==
    \/ \E c \in Callers : RunToolCall(c) /\ UNCHANGED <<clientVars, accVars, engVars, fmtVars, sinkVars, lvVars, dsVars, ceVars, sessVars, sseVars, rdVars>>
    \/ \E c \in Callers, k \in Clients :
            CallStart(c, k) /\ UNCHANGED <<clientVars, accVars, engVars, fmtVars, sinkVars, lvVars, dsVars, ceVars, sessVars, sseVars, rdVars>>
    \/ \E c \in Callers, k \in Clients :
            TestStart(c, k) /\ UNCHANGED <<clientVars, accVars, engVars, fmtVars, sinkVars, lvVars, dsVars, ceVars, sessVars, sseVars, rdVars>>
    \/ \E c \in Callers : CallWake(c) /\ UNCHANGED <<clientVars, accVars, engVars, fmtVars, sinkVars, lvVars, dsVars, ceVars, sessVars, sseVars, rdVars>>
    \/ \E c \in Callers, o \in Outcomes, hdr \in {NoSession} \cup SessionIds :
            CallResponse(c, o, hdr) /\ UNCHANGED <<clientVars, accVars, engVars, fmtVars, sinkVars, lvVars, dsVars, ceVars, sessVars, sseVars, rdVars>>
    \/ \E k \in Clients, hdr \in {NoSession} \cup SessionIds :
            HsOk(k, hdr) /\ UNCHANGED <<clientVars, accVars, engVars, fmtVars, sinkVars, lvVars, dsVars, ceVars, sessVars, sseVars, rdVars>>
    \/ \E k \in Clients : HsFail(k) /\ UNCHANGED <<clientVars, accVars, engVars, fmtVars, sinkVars, lvVars, dsVars, ceVars, sessVars, sseVars, rdVars>>

ServerInit == ClientInit /\ AccIdle /\ EngIdle /\ SrvIdle /\ FmtIdle /\ SinkIdle /\ LvIdle /\ DsIdle /\ CeIdle /\ SessIdle /\ SseIdle /\ RdIdle

ServerSpec == ServerInit /\ [][ServerNext]_vars

\* -------------------------------------------------------------------------
\* Properties of client instances (checked under ServerSpec).

\* C15: an instance sends no tool-call request before one of its handshakes
\* has completed and stored a session id.
C15_HandshakeBeforeFirstUse ==
    \A c \in Callers :
        callers[c].pc = "fetch" => clients[callers[c].client].shaken

\* C16: on one instance at most one initialize request is in flight at any
\* time, and every call that asked for a handshake, forced or not, while one
\* was in flight awaits that one: calls await a handshake only while exactly
\* one request is in flight, and none is left waiting once it has settled.
C16_OneHandshakeInFlight ==
    \A k \in Clients :
        /\ clients[k].inflight <= 1
        /\ clients[k].initializing <=> clients[k].inflight = 1
        /\ \A c \in Callers : Awaiting(c, k) => clients[k].inflight = 1

C16_Witness ==
    \E k \in Clients : \E c1, c2 \in Callers :
        /\ callers[c1].client = k /\ callers[c1].pc = "handshake"
        /\ callers[c2].client = k /\ callers[c2].pc = "init"
        /\ clients[k].inflight = 1

\* C17, as stated: concurrent calls of one instance that fail because of the
\* same invalid session lead to one re-handshake in total: no re-handshake
\* is started for a call whose attempt carried the session that another
\* call's rejection had already started a re-handshake for.
C17_Original == \A k \in Clients : ~clients[k].multiplied

\* C17, amended: a call asks for a re-handshake only on its first attempt,
\* hence at most once; if a handshake of its instance is in flight it shares
\* that one and no request is issued, otherwise exactly one initialize request
\* is issued; either way one handshake is in flight afterwards, and when it
\* settles the call is replayed or fails.
C17_Step ==
    \A c \in Callers :
        /\ (callers[c].pc = "fetch" /\ callers'[c].pc = "handshake") =>
               LET k == callers[c].client
               IN  /\ callers[c].attempt = 0 /\ ~callers[c].done
                   /\ clients'[k].inflight = 1
                   /\ clients[k].initializing =>
                          clients'[k].inflight = clients[k].inflight
                   /\ ~clients[k].initializing =>
                          clients'[k].inflight = clients[k].inflight + 1
        /\ (callers[c].pc = "handshake" /\ callers'[c].pc # "handshake") =>
               \/ callers'[c].pc = "failed"
               \/ callers'[c].pc = "fetch" /\ callers'[c].attempt = 1 /\ callers'[c].done
C17_RefreshedPerFailure == [][C17_Step]_vars

C17_Witness ==
    \E k \in Clients : \E c \in Callers :
        /\ clients[k].multiplied
        /\ clients[k].inflight = 1
        /\ callers[c].client = k /\ callers[c].pc = "handshake"

\* C18: a session obtained during one run is reused by later runs: a run
\* that starts when an earlier run's instance holds a session id sends its
\* requests with a session id.
C18_SessionReusedAcrossRuns ==
    \A c \in Callers :
        (callers[c].pc = "fetch" /\ clients[callers[c].client].late) =>
            callers[c].sent # NoSession

\* C20: within a run the transcript only grows by appending.  The step that
\* ends a round in which the model requested tools appends exactly two
\* messages: an assistant message holding all of the round's tool-use blocks,
\* then a user message holding one tool-result block per tool-use block, with
\* the same ids in the same order; no other step of the run changes the
\* transcript.
C20_Step ==
    epc # "idle" =>
        IF epc = "tools" /\ epc' # "tools"
        THEN /\ Len(messages') = Len(messages) + 2
             /\ SubSeq(messages', 1, Len(messages)) = messages
             /\ LET a == messages'[Len(messages) + 1]
                    u == messages'[Len(messages) + 2]
                IN  /\ a.role = "assistant"
                    /\ a.toolUses = toolCalls
                    /\ a.toolResults = <<>>
                    /\ u.role = "user"
                    /\ u.toolUses = <<>>
                    /\ Len(u.toolResults) = Len(toolCalls)
                    /\ \A i \in DOMAIN toolCalls :
                           u.toolResults[i].tool_use_id = toolCalls[i].id
        ELSE messages' = messages
ReasoningStartsUpTo(n) ==
    Len(SelectSeq(SubSeq(events, 1, n), IsReasoningStart))

\* C21: a run emits one reasoning_start event per round it starts - as many
\* as the rounds started - and each of them is the last event emitted before
\* that round's request to the model.
C21_ReasoningStartPerRound ==
    /\ ReasoningStartsUpTo(Len(events)) = iteration
    /\ DiscoveriesUpTo(Len(modelCallLog)) = iteration
    /\ \A j \in DOMAIN modelCallLog :
          IsDiscovery(modelCallLog[j]) =>
              /\ modelCallLog[j].nEvents \in DOMAIN events
              /\ IsReasoningStart(events[modelCallLog[j].nEvents])
              /\ ReasoningStartsUpTo(modelCallLog[j].nEvents) = DiscoveriesUpTo(j)

\* Two rounds have been started, the second after a round of tool calls.
C21_Witness ==
    /\ iteration = 2
    /\ ReasoningStartsUpTo(Len(events)) = 2
    /\ \E e \in DOMAIN events : events[e].event = "tool_call_complete"

IsToolEvent(e) == e.event \in {"tool_call_start", "tool_call_complete"}
ToolEvents == SelectSeq(events, IsToolEvent)

EventsOfType(ty) == {e \in DOMAIN events : events[e].event = ty}

\* C23: in every run that returns an answer there is exactly one answer_start
\* event, after every tool_call event and before the first answer_chunk, and
\* exactly one answer_complete event, after the last answer_chunk, whose text
\* is the text execute returns.
C23_AnswerBracketed ==
    epc = "done" =>
        /\ Cardinality(EventsOfType("answer_start")) = 1
        /\ Cardinality(EventsOfType("answer_complete")) = 1
        /\ \A s \in EventsOfType("answer_start"), c \in EventsOfType("answer_complete") :
              /\ \A t \in DOMAIN events : IsToolEvent(events[t]) => t < s
              /\ \A k \in EventsOfType("answer_chunk") : s < k /\ k < c
              /\ s < c
              /\ events[c].text = answer

\* An answer of two chunks returned after a round of tool calls.
C23_Witness ==
    /\ epc = "done"
    /\ ToolEvents # <<>>
    /\ Cardinality(EventsOfType("answer_chunk")) = 2
    /\ answer # <<>>

\* The step ends the last round the run was given, with tool calls executed
\* (or the run was given no round at all).
BoundReached ==
    \/ epc = "idle" /\ epc' # "idle" /\ maxIter' = 0
    \/ epc = "tools" /\ messages' # messages /\ iteration = maxIter

C27_Step ==
    /\ BoundReached =>
          /\ epc' = "partial"
          /\ Len(modelCallLog') = Len(modelCallLog) + 1
          /\ IsPartial(modelCallLog'[Len(modelCallLog')])
    /\ epc' = "partial" => (epc = "partial" \/ BoundReached)
    /\ epc = "partial" =>
          /\ epc' \in {"partial", "done", "failed"}
          /\ modelCallLog' = modelCallLog
          /\ execLog' = execLog
          /\ mcpRequests' = mcpRequests
          /\ epc' = "done" => IsAnswerComplete(events'[Len(events')])
          /\ epc' = "failed" => events'[Len(events')] = ErrorEvent
    /\ epc \in {"done", "failed"} => UNCHANGED engVars

\* C27: when the rounds are used up without a final answer, the engine makes
\* exactly one more request to the model; no tool call is executed after it,
\* whatever the response holds, and the run ends with the answer or with an
\* error, after which nothing more happens.
C27_OneAnswerOnlyCall == [][C27_Step]_vars

\* A run given two rounds executed tool calls in both and returned the
\* answer of the partial-answer request.
C27_Witness ==
    /\ epc = "done"
    /\ maxIter = MaxRounds
    /\ iteration = maxIter
    /\ IsPartial(modelCallLog[Len(modelCallLog)])
    /\ Len(SelectSeq(modelCallLog, IsPartial)) = 1
    /\ ToolRounds = maxIter

\* -------------------------------------------------------------------------
\* POST /api/chat: the handler around one run of the engine (specification
\* ChatSpec).  The request has passed validation and needs no clarification;
\* the connection stays open.  The handler calls execute without
\* maxIterations, and the gateway's streams are of any shape: a tool-use
\* block may carry an array as its input, or an id of blanks.

DEFAULT_MAX_ITERATIONS == 5

CallsArrayInput == <<ToolCall("toolu_1", "query-datasource", JsArray)>>
CallsBlankId == <<ToolCall(" ", "list-datasources", JsObject(EmptyObj))>>
ChatStreams ==
    {StreamSplitText, ToolStream(CallsQuery), ToolStream(CallsArrayInput),
     ToolStream(CallsBlankId)}

\* The handler reaches toolCallingLoop.execute; hook: SSE_TEST_THROW is set
\* and execute throws before it has emitted anything.
ChatRequest(msg, lock, hook) ==
    IF hook
    THEN /\ epc = "idle"
         /\ epc' = "crashed"
         /\ UNCHANGED <<userMessage, lockedDatasourceLuid, maxIter, iteration, messages,
                        toolCalls, toolResults, allToolCalls, allToolResults,
                        modelCallLog, mcpRequests, events, answer, modelFailures, execLog>>
    ELSE Execute(msg, lock, DEFAULT_MAX_ITERATIONS)

\* hasSSEEventBeenSent(res): some event has been written to the response.
hasSSEEventBeenSent == events # <<>>

\* The handler's catch block: execute threw.
ChatCatch ==
    /\ epc \in {"failed", "crashed"}
    /\ events' = IF ~hasSSEEventBeenSent THEN Append(events, ErrorEvent) ELSE events
    /\ epc' = "errored"
    /\ UNCHANGED <<userMessage, lockedDatasourceLuid, maxIter, iteration, messages,
                   toolCalls, toolResults, allToolCalls, allToolResults, modelCallLog,
                   mcpRequests, answer, modelFailures, execLog>>

\* execute returned: the response is ended.
ChatEnd ==
    /\ epc = "done"
    /\ epc' = "ended"
    /\ UNCHANGED <<userMessage, lockedDatasourceLuid, maxIter, iteration, messages,
                   toolCalls, toolResults, allToolCalls, allToolResults, modelCallLog,
                   mcpRequests, events, answer, modelFailures, execLog>>

ChatNext ==
    \/ \E msg \in UserMessages, lock \in LockChoices, hook \in BOOLEAN :
            ChatRequest(msg, lock, hook) /\ UNCHANGED <<clientVars, accVars, srvVars, fmtVars, sinkVars, lvVars, dsVars, ceVars, sessVars, sseVars, rdVars>>
    \/ DiscoveryRequestFails /\ UNCHANGED <<clientVars, accVars, srvVars, fmtVars, sinkVars, lvVars, dsVars, ceVars, sessVars, sseVars, rdVars>>
    \/ \E stream \in ChatStreams, breaks \in BOOLEAN :
            DiscoveryResponse(stream, breaks) /\ UNCHANGED <<clientVars, accVars, srvVars, fmtVars, sinkVars, lvVars, dsVars, ceVars, sessVars, sseVars, rdVars>>
    \/ \E remote \in RemoteOutcomes :
            ExecuteNextTool(remote) /\ UNCHANGED <<clientVars, accVars, srvVars, fmtVars, sinkVars, lvVars, dsVars, ceVars, sessVars, sseVars, rdVars>>
    \/ AnswerRequestFails /\ UNCHANGED <<clientVars, accVars, srvVars, fmtVars, sinkVars, lvVars, dsVars, ceVars, sessVars, sseVars, rdVars>>
    \/ \E stream \in AnswerStreams, breaks \in BOOLEAN :
            AnswerResponse(stream, breaks) /\ UNCHANGED <<clientVars, accVars, srvVars, fmtVars, sinkVars, lvVars, dsVars, ceVars, sessVars, sseVars, rdVars>>
    \/ ChatCatch /\ UNCHANGED <<clientVars, accVars, srvVars, fmtVars, sinkVars, lvVars, dsVars, ceVars, sessVars, sseVars, rdVars>>
    \/ ChatEnd /\ UNCHANGED <<clientVars, accVars, srvVars, fmtVars, sinkVars, lvVars, dsVars, ceVars, sessVars, sseVars, rdVars>>

ChatSpec == Init /\ [][ChatNext]_vars

IsError(e) == e.event = "error"

\* C24: a chat request whose run fails emits exactly one error event, and
\* that event is the last progress event of the request.
C24_OneTerminalErrorEvent ==
    epc = "errored" =>
        /\ Len(SelectSeq(events, IsError)) = 1
        /\ IsError(events[Len(events)])

(***************************************************************************)
(* ===================  formatToolResult and truncation  ================= *)
(***************************************************************************)

\* The limits are configuration (MAX_QUERY_RESULT_ROWS rows,
\* MAX_TOOL_RESULT_SIZE_BYTES bytes); the model's are small.
MAX_QUERY_RESULT_ROWS == 2
MAX_TOOL_RESULT_SIZE_BYTES == 40
\* The most rows of a result the remote tool returns.
MaxRows == 4

Tok(k, s, n) == [k |-> k, s |-> s, n |-> n]
P(c) == Tok("p", c, 0)
StrTok(s) == Tok("str", s, 0)
NumTok(n) == Tok("num", "", n)
TrueTok == Tok("lit", "true", 0)
NullTok == Tok("lit", "null", 0)
truncationIndicator == Tok("raw", "... [TRUNCATED: result too large]", 0)

RECURSIVE CommaJoin(_, _, _)
CommaJoin(texts, i, acc) ==
    IF i > Len(texts) THEN acc
    ELSE CommaJoin(texts, i + 1, (IF i = 1 THEN acc ELSE Append(acc, P(","))) \o texts[i])

\* JSON.stringify of a value.
RECURSIVE Stringify(_)
Stringify(v) ==
    CASE v.t = "str" -> <<StrTok(v.s)>>
      [] v.t = "num" -> <<NumTok(v.n)>>
      [] v.t = "true" -> <<TrueTok>>
      [] v.t = "null" -> <<NullTok>>
      [] v.t = "arr" ->
            <<P("[")>> \o CommaJoin([i \in DOMAIN v.items |-> Stringify(v.items[i])], 1, <<>>)
                       \o <<P("]")>>
      [] v.t = "obj" ->
            <<P("{")>>
              \o CommaJoin([i \in DOMAIN v.items |->
                              <<StrTok(v.items[i].s), P(":")>>
                                \o Stringify(v.items[i].items[1])], 1, <<>>)
              \o <<P("}")>>

\* JSON.parse of a text: ok is FALSE where the code's JSON.parse throws,
\* which it does also when anything follows the value.
ParseFailed == [ok |-> FALSE, val |-> JTrue, next |-> 0]
Parsed(v, next) == [ok |-> TRUE, val |-> v, next |-> next]
RECURSIVE ParseValue(_, _), ParseItems(_, _, _), ParseMembers(_, _, _)
ParseValue(toks, i) ==
    IF i > Len(toks) THEN ParseFailed
    ELSE CASE toks[i].k = "str" -> Parsed(JStr(toks[i].s), i + 1)
           [] toks[i].k = "num" -> Parsed(JNum(toks[i].n), i + 1)
           [] toks[i].k = "lit" -> Parsed(IF toks[i] = NullTok THEN JNull ELSE JTrue, i + 1)
           [] toks[i] = P("[") ->
                 IF i + 1 <= Len(toks) /\ toks[i + 1] = P("]")
                 THEN Parsed(JArr(<<>>), i + 2)
                 ELSE ParseItems(toks, i + 1, <<>>)
           [] toks[i] = P("{") ->
                 IF i + 1 <= Len(toks) /\ toks[i + 1] = P("}")
                 THEN Parsed(JObj(<<>>), i + 2)
                 ELSE ParseMembers(toks, i + 1, <<>>)
           [] OTHER -> ParseFailed
ParseItems(toks, i, acc) ==
    LET r == ParseValue(toks, i)
    IN  IF ~r.ok \/ r.next > Len(toks) THEN ParseFailed
        ELSE IF toks[r.next] = P(",") THEN ParseItems(toks, r.next + 1, Append(acc, r.val))
        ELSE IF toks[r.next] = P("]") THEN Parsed(JArr(Append(acc, r.val)), r.next + 1)
        ELSE ParseFailed
ParseMembers(toks, i, acc) ==
    IF i + 1 > Len(toks) \/ toks[i].k # "str" \/ toks[i + 1] # P(":") THEN ParseFailed
    ELSE LET r == ParseValue(toks, i + 2)
             m == Append(acc, Member(toks[i].s, r.val))
         IN  IF ~r.ok \/ r.next > Len(toks) THEN ParseFailed
             ELSE IF toks[r.next] = P(",") THEN ParseMembers(toks, r.next + 1, m)
             ELSE IF toks[r.next] = P("}") THEN Parsed(JObj(m), r.next + 1)
             ELSE ParseFailed
JSON_parse(toks) ==
    LET r == ParseValue(toks, 1)
    IN  [ok |-> r.ok /\ r.next = Len(toks) + 1, val |-> r.val]

\* 'key' in obj, and obj[key].
HasMember(v, k) == v.t = "obj" /\ \E i \in DOMAIN v.items : v.items[i].s = k
MemberOf(v, k) == v.items[CHOOSE i \in DOMAIN v.items : v.items[i].s = k].items[1]

truncateQueryResult_KeepAll(result) == result

\* truncateQueryResult: { ...queryResult, data: first rows, _metadata }.
truncateQueryResult(result) ==
    IF /\ HasMember(result, "data")
       /\ MemberOf(result, "data").t = "arr"
       /\ Len(MemberOf(result, "data").items) > MAX_QUERY_RESULT_ROWS
    THEN LET totalRows == Len(MemberOf(result, "data").items)
             truncatedData == SubSeq(MemberOf(result, "data").items, 1, MAX_QUERY_RESULT_ROWS)
         IN  JObj([i \in DOMAIN result.items |->
                      IF result.items[i].s = "data" THEN Member("data", JArr(truncatedData))
                                                    ELSE result.items[i]]
                  \o <<Member("_metadata",
                              JObj(<<Member("totalRows", JNum(totalRows)),
                                     Member("returnedRows", JNum(MAX_QUERY_RESULT_ROWS)),
                                     Member("truncated", JTrue),
                                     Member("note",
                                            JStr("Result truncated: showing first "
                                                 \o ToString(MAX_QUERY_RESULT_ROWS) \o " of "
                                                 \o ToString(totalRows) \o " rows"))>>))>>)
    ELSE result

\* The 1-based position of the last } or ] of a text; 0: there is none.
LastBoundary(text) ==
    LET at == {i \in DOMAIN text : text[i] \in {P("}"), P("]")}}
    IN  IF at = {} THEN 0 ELSE CHOOSE i \in at : \A j \in at : j <= i

\* truncateToolResultContent.
truncateToolResultContent(content) ==
    IF Len(content) <= MAX_TOOL_RESULT_SIZE_BYTES THEN content
    ELSE LET maxContentSize == MAX_TOOL_RESULT_SIZE_BYTES - Len(<<truncationIndicator>>)
             sliced == SubSeq(content, 1, maxContentSize)
             \* lastBoundary > maxContentSize * 0.8, lastBoundary counted from 0
             cut == IF 5 * (LastBoundary(sliced) - 1) > 4 * maxContentSize
                    THEN SubSeq(sliced, 1, LastBoundary(sliced))
                    ELSE sliced
             truncated ==
                 IF JSON_parse(cut).ok THEN cut
                 ELSE Stringify(JObj(<<Member("_truncated", JTrue),
                                       Member("_note",
                                              JStr("Result was too large and had to be truncated")),
                                       Member("_originalSizeBytes", JNum(Len(content))),
                                       Member("_truncatedSizeBytes", JNum(Len(cut)))>>))
         IN  Append(truncated, truncationIndicator)

\* The content that formatToolResult gives the ToolResult.
FormatContent(result) == truncateToolResultContent(Stringify(truncateQueryResult(result)))

\* What the remote tool returns, or what executeToolCall makes of a failure.
Row(n) == JObj(<<Member("v", JNum(n))>>)
RowLists == UNION {[1..k -> {Row(1), Row(2)}] : k \in 0..MaxRows}
ToolOutputs ==
    UNION {{JObj(<<Member("data", JArr(rows))>>),
            JObj(<<Member("data", JArr(rows)), Member("source", JStr("ds1"))>>),
            JObj(<<Member("rows", JArr(rows))>>),
            JArr(rows)} : rows \in RowLists}
      \cup {JObj(<<Member("error", JStr("Query failed")),
                   Member("recoverySuggestions", JArr([i \in 1..k |-> JStr("Check the fields")]))>>) :
                k \in 0..2}

FormatToolResult(result) ==
    /\ ~fmtDone
    /\ fmtResult' = result
    /\ fmtContent' = FormatContent(result)
    /\ fmtDone' = TRUE

FmtNext ==
    \E result \in ToolOutputs :
        FormatToolResult(result) /\ UNCHANGED <<clientVars, accVars, engVars, srvVars, sinkVars, lvVars, dsVars, ceVars, sessVars, sseVars, rdVars>>

FmtSpec == Init /\ [][FmtNext]_vars

\* C25: the content of every ToolResult is JSON that parses - of a result
\* that fits the byte ceiling and of one that was truncated to fit it.
C25_ContentIsJson ==
    fmtDone => JSON_parse(fmtContent).ok


\* The result is row-oriented and has more rows than the cap.
OverRowCap ==
    /\ fmtDone
    /\ HasMember(fmtResult, "data")
    /\ MemberOf(fmtResult, "data").t = "arr"
    /\ Len(MemberOf(fmtResult, "data").items) > MAX_QUERY_RESULT_ROWS
\* The content holds the first rows and the metadata block.
HoldsFirstRows ==
    LET parsed == JSON_parse(fmtContent)
        rows == MemberOf(fmtResult, "data").items
    IN  /\ parsed.ok
        /\ HasMember(parsed.val, "data")
        /\ MemberOf(parsed.val, "data") = JArr(SubSeq(rows, 1, MAX_QUERY_RESULT_ROWS))
        /\ HasMember(parsed.val, "_metadata")
        /\ HasMember(MemberOf(parsed.val, "_metadata"), "totalRows")
        /\ MemberOf(MemberOf(parsed.val, "_metadata"), "totalRows") = JNum(Len(rows))
        /\ HasMember(MemberOf(parsed.val, "_metadata"), "truncated")
        /\ MemberOf(MemberOf(parsed.val, "_metadata"), "truncated") = JTrue

\* C26 as claimed: whenever a row-oriented result has more rows than the cap,
\* the content holds exactly the first rows up to the cap, and a metadata
\* block with the original row count and truncated: true.
C26_Original == OverRowCap => HoldsFirstRows

\* C26: a row-oriented result with more rows than the cap, whose serialised
\* capped form is within the byte ceiling, gives a content that holds exactly
\* the first rows up to the cap, and a metadata block with the original row
\* count and truncated: true.
C26_RowCapWithinCeiling ==
    (OverRowCap /\ fmtContent[Len(fmtContent)] # truncationIndicator) => HoldsFirstRows

\* A result of four rows was capped to two and fits the ceiling.
C26_Witness ==
    /\ OverRowCap
    /\ Len(MemberOf(fmtResult, "data").items) = MaxRows
    /\ Len(fmtContent) <= MAX_TOOL_RESULT_SIZE_BYTES
    /\ HoldsFirstRows

(***************************************************************************)
(* ==========  The engine with a sink that may reject its events  ======== *)
(***************************************************************************)

\* sendSSEEvent: res.write throws where the sink does not accept; the
\* function catches it, and marks the response as written to otherwise.
sendSSEEvent(accepts) == [wrote |-> accepts, thrown |-> FALSE]

safeSendSSEEvent_Escapes(accepts) == [wrote |-> accepts, thrown |-> ~accepts]

\* safeSendSSEEvent with a sink: what sendSSEEvent throws is caught.
safeSendSSEEvent(accepts) ==
    [wrote |-> sendSSEEvent(accepts).wrote, thrown |-> FALSE]

\* The emissions of one step of execute, all accepted or all rejected.
Deliver(accepts) ==
    LET n == Len(events') - Len(events)
    IN  /\ written' = IF safeSendSSEEvent(accepts).wrote THEN written + n ELSE written
        /\ escaped' = (escaped \/ (n > 0 /\ safeSendSSEEvent(accepts).thrown))

SinkNext ==
    \/ \E msg \in UserMessages, lock \in LockChoices, mi \in 0..MaxRounds, accepts \in BOOLEAN :
            Execute(msg, lock, mi) /\ Deliver(accepts)
              /\ UNCHANGED <<clientVars, accVars, srvVars, fmtVars, lvVars, dsVars, ceVars, sessVars, sseVars, rdVars>>
    \/ \E accepts \in BOOLEAN :
            DiscoveryRequestFails /\ Deliver(accepts)
              /\ UNCHANGED <<clientVars, accVars, srvVars, fmtVars, lvVars, dsVars, ceVars, sessVars, sseVars, rdVars>>
    \/ \E stream \in DiscoveryStreams, breaks \in BOOLEAN, accepts \in BOOLEAN :
            DiscoveryResponse(stream, breaks) /\ Deliver(accepts)
              /\ UNCHANGED <<clientVars, accVars, srvVars, fmtVars, lvVars, dsVars, ceVars, sessVars, sseVars, rdVars>>
    \/ \E remote \in RemoteOutcomes, accepts \in BOOLEAN :
            ExecuteNextTool(remote) /\ Deliver(accepts)
              /\ UNCHANGED <<clientVars, accVars, srvVars, fmtVars, lvVars, dsVars, ceVars, sessVars, sseVars, rdVars>>
    \/ \E accepts \in BOOLEAN :
            AnswerRequestFails /\ Deliver(accepts)
              /\ UNCHANGED <<clientVars, accVars, srvVars, fmtVars, lvVars, dsVars, ceVars, sessVars, sseVars, rdVars>>
    \/ \E stream \in AnswerStreams, breaks \in BOOLEAN, accepts \in BOOLEAN :
            AnswerResponse(stream, breaks) /\ Deliver(accepts)
              /\ UNCHANGED <<clientVars, accVars, srvVars, fmtVars, lvVars, dsVars, ceVars, sessVars, sseVars, rdVars>>

SinkSpec == Init /\ [][SinkNext]_vars

LvError(c) == Err(c, "Error", TRUE, FALSE, FALSE, FALSE)
\* What the JavaScript runtime throws for `'code' in item` when item is
\* not an object.
LvTypeError == Err(0, "TypeError", FALSE, FALSE, FALSE, FALSE)
Returned == [kind |-> "returned", err |-> NoError]
Thrown(e) == [kind |-> "thrown", err |-> e]

\* _extractJsonFromText of a string response: the parsed value, or the
\* string itself when it holds no JSON.
ExtractJsonFromText(v) == IF v.t = "text" THEN JSON_parse(Stringify(v.items[1])).val ELSE v

\* The array under the first of the keys views, items, result, data that
\* holds one; none: the wrapper holds no array.
WrapperKeys == <<"views", "items", "result", "data">>
HasArrayAt(obj, k) == HasMember(obj, k) /\ MemberOf(obj, k).t = "arr"
Unwrapped(obj) ==
    IF \E i \in DOMAIN WrapperKeys : HasArrayAt(obj, WrapperKeys[i])
    THEN MemberOf(obj, WrapperKeys[CHOOSE i \in DOMAIN WrapperKeys :
                                       /\ HasArrayAt(obj, WrapperKeys[i])
                                       /\ \A j \in 1..(i - 1) : ~HasArrayAt(obj, WrapperKeys[j])])
    ELSE JNull

IsObjectValue(v) == v.t \in {"obj", "arr"}
IsNonBlankString(v) == v.t = "str" /\ v.s \notin {"", " "}
\* The item is an error object of the service's validation.
IsErrorItem(item) == HasMember(item, "code") /\ (HasMember(item, "message") \/ HasMember(item, "received"))
IsViewItem(item) ==
    /\ item.t \in {"obj", "arr"}
    /\ HasMember(item, "id") /\ IsNonBlankString(MemberOf(item, "id"))
    /\ HasMember(item, "name") /\ IsNonBlankString(MemberOf(item, "name"))

\* The two loops over the array, in the order of the code: the first applies
\* the in operator to every item.
CheckViews(views) ==
    IF \E i \in DOMAIN views :
          /\ ~IsObjectValue(views[i]) \/ IsErrorItem(views[i])
          /\ \A j \in 1..(i - 1) : IsObjectValue(views[j]) /\ ~IsErrorItem(views[j])
    THEN LET i == CHOOSE k \in DOMAIN views :
                     /\ ~IsObjectValue(views[k]) \/ IsErrorItem(views[k])
                     /\ \A j \in 1..(k - 1) : IsObjectValue(views[j]) /\ ~IsErrorItem(views[j])
         IN  IF IsObjectValue(views[i]) THEN Thrown(LvError(-32602)) ELSE Thrown(LvTypeError)
    ELSE IF \E i \in DOMAIN views : ~IsViewItem(views[i]) THEN Thrown(LvError(-32603))
    ELSE Returned

\* listViews after _request has resolved with response.
listViews(response) ==
    IF response.t = "text"
    THEN LET parsed == ExtractJsonFromText(response)
         IN  IF parsed.t = "arr" THEN CheckViews(parsed.items)
             ELSE IF parsed.t = "obj" /\ Unwrapped(parsed) # JNull
             THEN CheckViews(Unwrapped(parsed).items)
             ELSE Thrown(LvError(-32603))
    ELSE IF response.t = "str" THEN Thrown(LvError(-32603))
    ELSE IF response.t = "obj"
    THEN IF Unwrapped(response) # JNull THEN CheckViews(Unwrapped(response).items)
         ELSE Thrown(LvError(-32603))
    ELSE IF response.t = "arr" THEN CheckViews(response.items)
    ELSE Thrown(LvError(-32603))

\* The items of a response, the arrays of at most two of them, and the
\* shapes in which the service wraps an array.
ViewItems ==
    {JObj(<<Member("id", JStr("v1")), Member("name", JStr("Overview"))>>),
     JObj(<<Member("id", JStr("v2"))>>),
     JObj(<<Member("code", JStr("invalid_enum_value")), Member("message", JStr("Invalid filter"))>>),
     JNull, JStr("v3"), JNum(7)}
ViewArrays == UNION {[1..k -> ViewItems] : k \in 0..2}
ViewResponses ==
    UNION {{JArr(a), JText(JArr(a)),
            JObj(<<Member("views", JArr(a))>>), JObj(<<Member("data", JArr(a))>>),
            JText(JObj(<<Member("items", JArr(a))>>))} : a \in ViewArrays}
      \cup {JStr("no views"), JNum(7), JObj(<<Member("views", JStr("none"))>>)}

\* The errors _request rejects with: all carry isMcpError.
RequestErrors ==
    {Err(408, "Error", TRUE, TRUE, FALSE, FALSE), Err(503, "Error", TRUE, TRUE, FALSE, FALSE),
     Err(0, "Error", TRUE, FALSE, FALSE, FALSE)}

ListViews(response) ==
    /\ lvOutcome.kind = "none"
    /\ lvResponse' = response
    /\ lvOutcome' = listViews(response)

\* _request rejects, and the catch block of listViews rethrows.
ListViewsRequestFails(e) ==
    /\ lvOutcome.kind = "none"
    /\ lvOutcome' = Thrown(e)
    /\ UNCHANGED lvResponse

ViewsNext ==
    \/ \E response \in ViewResponses :
          ListViews(response)
            /\ UNCHANGED <<clientVars, accVars, engVars, srvVars, fmtVars, sinkVars, dsVars, ceVars, sessVars, sseVars, rdVars>>
    \/ \E e \in RequestErrors :
          ListViewsRequestFails(e)
            /\ UNCHANGED <<clientVars, accVars, engVars, srvVars, fmtVars, sinkVars, dsVars, ceVars, sessVars, sseVars, rdVars>>

ViewsSpec == Init /\ [][ViewsNext]_vars

\* C30: every failure of listViews is raised as an error marked as a tool
\* client error (isMcpError); no untyped exception such as a TypeError
\* escapes, whatever the shape of the service's response.
C30_FailuresAreTyped ==
    lvOutcome.kind = "thrown" => lvOutcome.err.isMcpError

(***************************************************************************)
(* =====================  GET /api/datasources  ========================== *)
(***************************************************************************)

DATASOURCES_CACHE_TTL_MS == 30000

\* The clock advances in steps of TickMs, up to MaxTicks steps; at most
\* MaxRequests requests arrive.
TickMs == 10000
MaxTicks == 4
MaxRequests == 3

\* The fetches the tool service is working on, and those that succeeded.
InFlight == {f \in DOMAIN fetches : fetches[f].state = "inflight"}
Succeeded == {f \in DOMAIN fetches : fetches[f].state = "ok"}

\* `datasourcesCache && datasourcesCache.expiresAt > now`
CacheHit(now) ==
    datasourcesCache # NoCache /\ datasourcesCache.expiresAt > now

FetchInProgress_Never(inflight) == FALSE

\* `if (datasourcesInflight)`
FetchInProgress(inflight) == inflight # NoFetch

\* A request record: the time it read on arrival, the fetches that were in
\* flight and those that had succeeded when it arrived, how it is served
\* ("cache", "wait" for a fetch in flight, "fetch" for one it started), the
\* fetch it waits for, and its answer.
Req(now, via, on, status, value) ==
    [now |-> now, seen |-> InFlight, done |-> Succeeded, via |-> via,
     on |-> on, status |-> status, value |-> value]

\* Time passes.
Tick ==
    /\ clock < MaxTicks * TickMs
    /\ clock' = clock + TickMs
    /\ UNCHANGED <<datasourcesCache, datasourcesInflight, fetches, requests>>

\* A request arrives: the handler runs up to its first await, or to its
\* answer from the cache.  The result of fetch f is the value f.
Arrive ==
    /\ Len(requests) < MaxRequests
    /\ LET now == clock
       IN  IF CacheHit(now)
           THEN /\ requests' = Append(requests,
                        Req(now, "cache", NoFetch, 200, datasourcesCache.value))
                /\ UNCHANGED <<datasourcesInflight, fetches>>
           ELSE IF FetchInProgress(datasourcesInflight)
           THEN /\ requests' = Append(requests,
                        Req(now, "wait", datasourcesInflight, 0, 0))
                /\ UNCHANGED <<datasourcesInflight, fetches>>
           ELSE /\ fetches' = Append(fetches,
                        [now |-> now, state |-> "inflight", ended |-> -1])
                /\ datasourcesInflight' = Len(fetches) + 1
                /\ requests' = Append(requests,
                        Req(now, "fetch", Len(fetches) + 1, 0, 0))
    /\ UNCHANGED <<clock, datasourcesCache>>

\* listDatasources of fetch f settles; the handlers awaiting its promise go
\* on in the same turn of the event loop and answer.
FetchSettles(f, ok) ==
    /\ f \in InFlight
    /\ fetches' = [fetches EXCEPT ![f].state = IF ok THEN "ok" ELSE "failed",
                                  ![f].ended = clock]
    /\ datasourcesCache' =
            IF ok
            THEN [value |-> f,
                  expiresAt |-> fetches[f].now + DATASOURCES_CACHE_TTL_MS]
            ELSE datasourcesCache
    /\ datasourcesInflight' = NoFetch
    /\ requests' =
            [r \in DOMAIN requests |->
                IF requests[r].on = f /\ requests[r].status = 0
                THEN [requests[r] EXCEPT !.status = IF ok THEN 200 ELSE 500,
                                         !.value = IF ok THEN f ELSE 0]
                ELSE requests[r]]
    /\ UNCHANGED clock

DsNext ==
    \/ Tick /\ UNCHANGED <<clientVars, accVars, engVars, srvVars, fmtVars, sinkVars, lvVars, ceVars, sessVars, sseVars, rdVars>>
    \/ Arrive /\ UNCHANGED <<clientVars, accVars, engVars, srvVars, fmtVars, sinkVars, lvVars, ceVars, sessVars, sseVars, rdVars>>
    \/ \E f \in DOMAIN fetches, ok \in BOOLEAN :
            FetchSettles(f, ok) /\ UNCHANGED <<clientVars, accVars, engVars, srvVars, fmtVars, sinkVars, lvVars, ceVars, sessVars, sseVars, rdVars>>

DsSpec == Init /\ [][DsNext]_vars

\* C31: during the 30 seconds after a result was fetched every request is
\* answered from the cache, without a list-datasources fetch; a request that
\* arrives once those 30 seconds are over is not answered from the cache.
C31_CachedFor30Seconds ==
    \A r \in DOMAIN requests :
        \A f \in requests[r].done :
            (\A g \in requests[r].done : g <= f) =>
                IF requests[r].now < fetches[f].ended + DATASOURCES_CACHE_TTL_MS
                THEN requests[r].via = "cache"
                ELSE requests[r].via # "cache"

\* C35: at most one list-datasources fetch is in flight; a request that
\* arrives while one is in flight waits for it and is answered with its
\* result or its failure; the in-flight marker is set exactly while a fetch
\* is in flight.
C35_OneFetchInFlight ==
    /\ Cardinality(InFlight) <= 1
    /\ IF InFlight = {} THEN datasourcesInflight = NoFetch
       ELSE datasourcesInflight \in InFlight
    /\ \A r \in DOMAIN requests :
            requests[r].seen # {} =>
                /\ requests[r].via = "wait"
                /\ requests[r].on \in requests[r].seen
                /\ fetches[requests[r].on].state = "inflight" =>
                        requests[r].status = 0
                /\ fetches[requests[r].on].state = "ok" =>
                        requests[r].status = 200
                        /\ requests[r].value = requests[r].on
                /\ fetches[requests[r].on].state = "failed" =>
                        requests[r].status = 500

\* A request waited for a fetch in flight and got its failure, and a later
\* request started a new fetch.
C35_Witness ==
    \E r \in DOMAIN requests :
        /\ requests[r].seen # {}
        /\ requests[r].status = 500
        /\ \E q \in DOMAIN requests :
                q > r /\ requests[q].via = "fetch" /\ requests[q].on \in InFlight

(***************************************************************************)
(* =====================  Context-envelope cache  ======================== *)
(***************************************************************************)

CACHE_EXPIRATION_MS == 300000

\* The cache limit (10 in the source), scaled down with the number of
\* datasources.
MAX_CACHE_SIZE == 1

\* The clock advances in steps of CeTickMs, up to MaxCeTicks steps; at most
\* MaxCeCalls calls are made.
CeTickMs == 200000
MaxCeTicks == 2
MaxCeCalls == 2

\* An argument that is not given.
Undefined == "undefined"

\* Datasource LUIDs ("" is the blank one); DefaultDatasource is
\* config.defaults.datasourceLuid.
CeDatasources == {ToString(i) : i \in 1..(MAX_CACHE_SIZE + 1)}
DefaultDatasource == "1"
WorkbookArgs == {Undefined, "wb"}
ViewArgs == {Undefined, "view"}

\* contextCache.get / delete / set
CeIndex(cache, key) ==
    IF \E i \in DOMAIN cache : cache[i].key = key
    THEN CHOOSE i \in DOMAIN cache : cache[i].key = key
    ELSE 0

CeDelete(cache, key) == SelectSeq(cache, LAMBDA e : e.key # key)

CeSet(cache, entry) ==
    IF CeIndex(cache, entry.key) # 0
    THEN [cache EXCEPT ![CeIndex(cache, entry.key)] = entry]
    ELSE Append(cache, entry)

\* The first entry, in iteration order, with the lowest timestamp.
OldestIndex(cache) ==
    CHOOSE i \in DOMAIN cache :
        \A j \in DOMAIN cache :
            /\ cache[i].timestamp <= cache[j].timestamp
            /\ j < i => cache[j].timestamp > cache[i].timestamp

evictOldestCacheEntry(cache) ==
    IF Len(cache) <= MAX_CACHE_SIZE THEN cache
    ELSE CeDelete(cache, cache[OldestIndex(cache)].key)

\* formatContextString, as far as the arguments of the call enter it.
formatContextString(ds, workbookInfo, viewInfo) ==
    [ds |-> ds, workbook |-> workbookInfo, view |-> viewInfo]

\* A call record: its arguments, the time it began, whether the call before
\* it had cached its result by then, how it ended ("hit", "stored", "partial"
\* for the fallback string, "thrown"), the requests it sent and its result.
CeCall(ds, wb, view, state, sent, result) ==
    [ds |-> ds, workbookId |-> wb, viewId |-> view, began |-> ceNow,
     afterStored |-> ceCalls # <<>> /\ ceCalls[Len(ceCalls)].state = "stored",
     state |-> state, requests |-> sent, result |-> result]

NoContext == formatContextString("", Undefined, Undefined)

CeTick ==
    /\ ceNow < MaxCeTicks * CeTickMs
    /\ ceNow' = ceNow + CeTickMs
    /\ UNCHANGED <<contextCache, ceCalls>>

\* buildContextEnvelope up to its first await: validation and cache check.
BuildBegin(ds, wb, view) ==
    /\ Len(ceCalls) < MaxCeCalls
    /\ LET i == CeIndex(contextCache, ds)
       IN  IF ds = ""
           THEN /\ ceCalls' = Append(ceCalls,
                        CeCall(ds, wb, view, "thrown", 0, NoContext))
                /\ UNCHANGED contextCache
           ELSE IF i # 0
                   /\ ceNow - contextCache[i].timestamp <= CACHE_EXPIRATION_MS
                   /\ contextCache[i].workbookId = wb
                   /\ contextCache[i].viewId = view
           THEN /\ ceCalls' = Append(ceCalls,
                        CeCall(ds, wb, view, "hit", 0,
                               contextCache[i].contextString))
                /\ UNCHANGED contextCache
           ELSE /\ contextCache' = CeDelete(contextCache, ds)
                /\ ceCalls' = Append(ceCalls,
                        CeCall(ds, wb, view, "pending", 0, NoContext))
    /\ UNCHANGED ceNow

\* The rest of the call: the metadata request, the list-datasources request,
\* the workbook and view lookups (resolved or not), and the caching of the
\* result.
BuildEnd(c, metaOk, wbResolved, viewResolved) ==
    /\ c \in DOMAIN ceCalls
    /\ ceCalls[c].state = "pending"
    /\ LET call == ceCalls[c]
           workbookInfo == IF call.workbookId # Undefined /\ wbResolved
                           THEN call.workbookId ELSE Undefined
           viewInfo == IF call.viewId # Undefined /\ viewResolved
                       THEN call.viewId ELSE Undefined
           contextString == formatContextString(call.ds, workbookInfo, viewInfo)
           lookups == (IF call.workbookId # Undefined THEN 1 ELSE 0)
                      + (IF call.viewId # Undefined THEN 1 ELSE 0)
       IN  IF metaOk
           THEN /\ contextCache' =
                        CeSet(evictOldestCacheEntry(contextCache),
                              [key |-> call.ds, workbookId |-> workbookInfo,
                               viewId |-> viewInfo, timestamp |-> ceNow,
                               contextString |-> contextString])
                /\ ceCalls' = [ceCalls EXCEPT ![c].state = "stored",
                                              ![c].requests = 2 + lookups,
                                              ![c].result = contextString]
           ELSE /\ ceCalls' =
                    [ceCalls EXCEPT
                        ![c].state = IF call.ds = DefaultDatasource
                                     THEN "partial" ELSE "thrown",
                        ![c].requests = 1,
                        ![c].result =
                            IF call.ds = DefaultDatasource
                            THEN formatContextString(call.ds, call.workbookId,
                                                     call.viewId)
                            ELSE NoContext]
                /\ UNCHANGED contextCache
    /\ UNCHANGED ceNow

CeNext ==
    \/ CeTick /\ UNCHANGED <<clientVars, accVars, engVars, srvVars, fmtVars, sinkVars, lvVars, dsVars, sessVars, sseVars, rdVars>>
    \/ \E ds \in CeDatasources, wb \in WorkbookArgs, view \in ViewArgs :
            BuildBegin(ds, wb, view) /\ UNCHANGED <<clientVars, accVars, engVars, srvVars, fmtVars, sinkVars, lvVars, dsVars, sessVars, sseVars, rdVars>>
    \/ BuildBegin("", Undefined, Undefined) /\ UNCHANGED <<clientVars, accVars, engVars, srvVars, fmtVars, sinkVars, lvVars, dsVars, sessVars, sseVars, rdVars>>
    \/ \E c \in DOMAIN ceCalls, metaOk \in BOOLEAN, wbResolved \in BOOLEAN, viewResolved \in BOOLEAN :
            BuildEnd(c, metaOk, wbResolved, viewResolved) /\ UNCHANGED <<clientVars, accVars, engVars, srvVars, fmtVars, sinkVars, lvVars, dsVars, sessVars, sseVars, rdVars>>

CeSpec == Init /\ [][CeNext]_vars

\* C33: the context-envelope cache never holds more than MAX_CACHE_SIZE
\* entries.
C33_CacheWithinLimit == Len(contextCache) <= MAX_CACHE_SIZE

\* C34: a call made after a successful call with the same datasource,
\* workbook and view had returned, less than 5 minutes after it and with no
\* call in between, returns the string that call cached and makes no request
\* to the tool service.
C34_RepeatedCallIsCacheHit ==
    \A c \in DOMAIN ceCalls :
        (/\ c > 1
         /\ ceCalls[c].afterStored
         /\ ceCalls[c - 1].ds = ceCalls[c].ds
         /\ ceCalls[c - 1].workbookId = ceCalls[c].workbookId
         /\ ceCalls[c - 1].viewId = ceCalls[c].viewId
         /\ ceCalls[c].began - ceCalls[c - 1].began < CACHE_EXPIRATION_MS)
        => /\ ceCalls[c].state = "hit"
           /\ ceCalls[c].requests = 0
           /\ ceCalls[c].result = ceCalls[c - 1].result

(***************************************************************************)
(* ==================  POST /api/chat and the session  =================== *)
(***************************************************************************)

\* addMessage keeps the stored history to HistoryLimit messages (50 in the
\* source).  At most MaxChats requests arrive, for at most MaxSessions
\* sessions.
HistoryLimit == 3
MaxChats == 3
MaxSessions == 2

ChatTexts == {<<" ">>, <<"h", "i", " ">>}

\* A stored message; n is its number among the messages ever stored in the
\* session, chat the request that stored it.
StoredMessage(role, content, n, chat) ==
    [role |-> role, content |-> content, n |-> n, chat |-> chat]

addMessage_DropAll(store, sid, role, content, chat) ==
    IF sid \notin DOMAIN store THEN store
    ELSE LET state == store[sid]
             kept == IF Len(state.history) >= HistoryLimit
                     THEN <<>>
                     ELSE state.history
         IN  [store EXCEPT ![sid] =
                [history |-> Append(kept, StoredMessage(role, content,
                                                        state.stored + 1, chat)),
                 stored |-> state.stored + 1]]

\* ConversationStateManager.addMessage
addMessage(store, sid, role, content, chat) ==
    IF sid \notin DOMAIN store THEN store
    ELSE LET state == store[sid]
             kept == IF Len(state.history) >= HistoryLimit
                     THEN SubSeq(state.history,
                                 Len(state.history) - (HistoryLimit - 1) + 1,
                                 Len(state.history))
                     ELSE state.history
         IN  [store EXCEPT ![sid] =
                [history |-> Append(kept, StoredMessage(role, content,
                                                        state.stored + 1, chat)),
                 stored |-> state.stored + 1]]

\* ConversationStateManager.getOrCreate: the store and the session id after
\* it; a new session gets the next unused id.
getOrCreate(store, sid) ==
    IF sid \in DOMAIN store
    THEN [store |-> store, sid |-> sid]
    ELSE [store |-> Append(store, [history |-> <<>>, stored |-> 0]),
          sid |-> Len(store) + 1]

ClarificationQuestion == <<"?">>
RunAnswer == <<"o", "k">>

\* A request record: its session, the stored text of its message and that
\* message's number in the session, and where the handler is: "rejected"
\* (400), "running" (execute is awaited), "clarified", "ended" (execute
\* returned) or "errored" (execute threw).
ChatRecord(sid, text, n, pc) ==
    [sid |-> sid, text |-> text, userN |-> n, pc |-> pc]

\* The handler up to the await of execute, or to its end when the request is
\* rejected or answered with a clarification question.
ChatArrive(body, sidArg, clarify) ==
    /\ Len(chats) < MaxChats
    /\ LET c == Len(chats) + 1
           got == getOrCreate(sessions, sidArg)
           stored1 == addMessage(got.store, got.sid, "user", Trim(body), c)
           stored2 == addMessage(stored1, got.sid, "assistant",
                                 ClarificationQuestion, c)
           n == stored1[got.sid].stored
       IN  IF IsBlank(body)
           THEN /\ chats' = Append(chats, ChatRecord(0, body, 0, "rejected"))
                /\ UNCHANGED sessions
           ELSE /\ Len(got.store) <= MaxSessions
                /\ sessions' = IF clarify THEN stored2 ELSE stored1
                /\ chats' = Append(chats,
                        ChatRecord(got.sid, Trim(body), n,
                                   IF clarify THEN "clarified" ELSE "running"))

\* execute returned the answer: it is stored and the response is ended.
RunReturns(c) ==
    /\ c \in DOMAIN chats
    /\ chats[c].pc = "running"
    /\ sessions' = addMessage(sessions, chats[c].sid, "assistant", RunAnswer, c)
    /\ chats' = [chats EXCEPT ![c].pc = "ended"]

\* execute threw: the catch block sends the error event, if none was sent,
\* and ends the response.
RunThrows(c) ==
    /\ c \in DOMAIN chats
    /\ chats[c].pc = "running"
    /\ chats' = [chats EXCEPT ![c].pc = "errored"]
    /\ UNCHANGED sessions

SessNext ==
    \/ \E body \in ChatTexts, sidArg \in 0..MaxSessions, clarify \in BOOLEAN :
            ChatArrive(body, sidArg, clarify) /\ UNCHANGED <<clientVars, accVars, engVars, srvVars, fmtVars, sinkVars, lvVars, dsVars, ceVars, sseVars, rdVars>>
    \/ \E c \in DOMAIN chats :
            RunReturns(c) /\ UNCHANGED <<clientVars, accVars, engVars, srvVars, fmtVars, sinkVars, lvVars, dsVars, ceVars, sseVars, rdVars>>
    \/ \E c \in DOMAIN chats :
            RunThrows(c) /\ UNCHANGED <<clientVars, accVars, engVars, srvVars, fmtVars, sinkVars, lvVars, dsVars, ceVars, sseVars, rdVars>>

SessSpec == Init /\ [][SessNext]_vars

Over(c) == chats[c].pc \in {"clarified", "ended", "errored"}

\* The history of the session of request c holds the message of c.
HoldsUserMessage(c) ==
    \E i \in DOMAIN sessions[chats[c].sid].history :
        LET m == sessions[chats[c].sid].history[i]
        IN  m.role = "user" /\ m.content = chats[c].text /\ m.chat = c

\* The assistant messages of request c in the history.
AssistantMessages(c) ==
    {m \in {sessions[chats[c].sid].history[i] :
                i \in DOMAIN sessions[chats[c].sid].history} :
        m.role = "assistant" /\ m.chat = c}

\* Request c is over after the step, and was not before it.
Ends(c) ==
    /\ c \in DOMAIN chats'
    /\ chats'[c].pc \in {"clarified", "ended", "errored"}
    /\ c \in DOMAIN chats => chats[c].pc = "running"

\* No session is deleted or reset: its history does not shrink and keeps its
\* newest messages.
SessionsKept ==
    \A s \in DOMAIN sessions :
        /\ s \in DOMAIN sessions'
        /\ sessions'[s].stored >= sessions[s].stored
        /\ Len(sessions'[s].history) >= Len(sessions[s].history)

AnswerStored(c) ==
    AssistantMessages(c)' # {} <=> chats'[c].pc \in {"clarified", "ended"}

C36_OriginalStep ==
    /\ SessionsKept
    /\ \A c \in DOMAIN chats' :
            Ends(c) =>
                /\ chats'[c].sid \in DOMAIN sessions'
                /\ HoldsUserMessage(c)'
                /\ AnswerStored(c)

\* C36, as stated: no step of the handler deletes or resets a session; when
\* a request ends, with an answer or an error, its session exists and the
\* history holds the user's message; it holds an assistant message of the
\* request exactly when the run or the clarification step gave an answer.
C36_Original == [][C36_OriginalStep]_vars

C36_Step ==
    /\ SessionsKept
    /\ \A c \in DOMAIN chats' :
            Ends(c) =>
                /\ chats'[c].sid \in DOMAIN sessions'
                /\ chats'[c].userN >= 1
                /\ sessions'[chats'[c].sid].stored - chats'[c].userN < HistoryLimit
                        => HoldsUserMessage(c)'
                /\ AnswerStored(c)

\* C36: no step of the handler deletes or resets a session; when a request
\* ends, with an answer or an error, its session exists and the history
\* holds the user's message, stored before the run, unless HistoryLimit or
\* more messages were stored in the session after it; it holds an assistant
\* message of the request exactly when the run or the clarification step
\* gave an answer.
C36_SessionKeepsMessages == [][C36_Step]_vars

\* A request whose run failed and one whose run answered, both in a session
\* whose history is full.
C36_Witness ==
    \E c, d \in DOMAIN chats :
        /\ chats[c].pc = "errored"
        /\ chats[d].pc = "ended"
        /\ chats[c].sid = chats[d].sid
        /\ Len(sessions[chats[c].sid].history) = HistoryLimit
        /\ HoldsUserMessage(d)

(***************************************************************************)
(* ====================  MCPClient._parseSSEResponse  ==================== *)
(***************************************************************************)

\* A body carries at most MaxSseEvents events.
MaxSseEvents == 3

\* The contents of data lines: JSON-RPC messages with the id 1 or 2, a
\* notification (no id), a text that is not JSON, and the [DONE] marker.
RpcMessage(id) == JObj(<<Member("jsonrpc", JStr("2.0")), Member("id", JNum(id))>>)
Notification == JObj(<<Member("jsonrpc", JStr("2.0")), Member("method", JStr("ping"))>>)
InvalidData == <<P("{")>>
DoneMarker == <<Tok("raw", "[DONE]", 0)>>
SseData ==
    {Stringify(RpcMessage(1)), Stringify(RpcMessage(2)), Stringify(Notification),
     InvalidData, DoneMarker}
SseBodies == UNION {[1..n -> SseData] : n \in 1..MaxSseEvents}
RequestIds == {JUndefined, JNum(1), JNum(2), JNum(3)}

\* The lines of a body of events: each event is an optional "event:" line, a
\* data line and a blank line.
RECURSIVE EventLines(_, _, _, _)
EventLines(datas, i, named, acc) ==
    IF i > Len(datas) THEN acc
    ELSE EventLines(datas, i + 1, named,
            acc \o (IF named THEN <<SseLine("event", <<>>)>> ELSE <<>>)
                \o <<SseLine("data", datas[i]), SseLine("blank", <<>>)>>)

\* parsed.id
IdOf(v) == IF HasMember(v, "id") THEN MemberOf(v, "id") ELSE JUndefined

\* The data and the response after a `data: ` line.
AfterData(cur, toks) == IF toks = DoneMarker THEN cur ELSE cur \o toks

\* The response after JSON.parse(currentData) and the choice between the
\* parsed message and the one held.
AfterParse(resp, cur, rid) ==
    LET r == JSON_parse(cur)
    IN  IF r.ok /\ r.val.t # "null" /\ (IdOf(r.val) = rid \/ resp = NoResponse)
        THEN r.val
        ELSE resp

\* The body is received.  named: the events carry an "event:" line;
\* terminated: the last event ends with a line end and a blank line.
SseStart(datas, rid, named, terminated) ==
    /\ sseOutcome.kind = "none"
    /\ sseEvents = <<>>
    /\ sseEvents' = datas
    /\ sseRequestId' = rid
    /\ LET all == EventLines(datas, 1, named, <<>>)
       IN  IF terminated
           THEN sseLines' = all /\ sseRest' = NoLine
           ELSE /\ sseLines' = SubSeq(all, 1, Len(all) - 2)
                /\ sseRest' = all[Len(all) - 1]
    /\ ssePos' = 1
    /\ mcpResponse' = NoResponse
    /\ currentData' = <<>>
    /\ UNCHANGED sseOutcome

\* One complete line of the body is processed.
SseNextLine ==
    /\ sseEvents # <<>>
    /\ sseOutcome.kind = "none"
    /\ ssePos <= Len(sseLines)
    /\ LET line == sseLines[ssePos]
       IN  CASE line.k = "event" ->
                    /\ currentData' =
                            IF mcpResponse = NoResponse
                               \/ IdOf(mcpResponse) # sseRequestId
                            THEN <<>> ELSE currentData
                    /\ UNCHANGED mcpResponse
             [] line.k = "data" ->
                    /\ currentData' = AfterData(currentData, line.toks)
                    /\ UNCHANGED mcpResponse
             [] line.k = "blank" /\ currentData # <<>> ->
                    /\ mcpResponse' = AfterParse(mcpResponse, currentData, sseRequestId)
                    /\ currentData' = <<>>
             [] OTHER -> UNCHANGED <<mcpResponse, currentData>>
    /\ ssePos' = ssePos + 1
    /\ UNCHANGED <<sseEvents, sseLines, sseRest, sseRequestId, sseOutcome>>

\* The body has ended: the rest of the buffer is processed, the data left
\* over is parsed if no response is held, and the call returns or throws.
SseDone ==
    /\ sseEvents # <<>>
    /\ sseOutcome.kind = "none"
    /\ ssePos > Len(sseLines)
    /\ LET cur == IF sseRest.k = "data"
                  THEN AfterData(currentData, sseRest.toks)
                  ELSE currentData
           resp == IF cur # <<>> /\ mcpResponse = NoResponse
                   THEN AfterParse(mcpResponse, cur, sseRequestId)
                   ELSE mcpResponse
       IN  /\ currentData' = cur
           /\ mcpResponse' = resp
           /\ sseOutcome' = IF resp = NoResponse
                            THEN [kind |-> "thrown", val |-> NoResponse]
                            ELSE [kind |-> "returned", val |-> resp]
    /\ UNCHANGED <<sseEvents, sseLines, sseRest, sseRequestId, ssePos>>

SseNext ==
    \/ \E datas \in SseBodies, rid \in RequestIds, named \in BOOLEAN, terminated \in BOOLEAN :
            SseStart(datas, rid, named, terminated) /\ UNCHANGED <<clientVars, accVars, engVars, srvVars, fmtVars, sinkVars, lvVars, dsVars, ceVars, sessVars, rdVars>>
    \/ SseNextLine /\ UNCHANGED <<clientVars, accVars, engVars, srvVars, fmtVars, sinkVars, lvVars, dsVars, ceVars, sessVars, rdVars>>
    \/ SseDone /\ UNCHANGED <<clientVars, accVars, engVars, srvVars, fmtVars, sinkVars, lvVars, dsVars, ceVars, sessVars, rdVars>>

SseSpec == Init /\ [][SseNext]_vars

\* The valid events of the body, in order.
IsValidEvent(toks) == JSON_parse(toks).ok
ValidEvents ==
    LET idx == SelectSeq([i \in DOMAIN sseEvents |-> i],
                         LAMBDA i : IsValidEvent(sseEvents[i]))
    IN  [k \in DOMAIN idx |-> JSON_parse(sseEvents[idx[k]]).val]

\* C37: of a body with several events the call returns an event whose id
\* equals the request id if there is one; otherwise, and whenever no request
\* id is given, the last valid event of the body.
C37_MatchingElseLastEvent ==
    (sseOutcome.kind # "none" /\ ValidEvents # <<>>) =>
        /\ sseOutcome.kind = "returned"
        /\ IF /\ sseRequestId # JUndefined
              /\ \E k \in DOMAIN ValidEvents : IdOf(ValidEvents[k]) = sseRequestId
           THEN IdOf(sseOutcome.val) = sseRequestId
           ELSE sseOutcome.val = ValidEvents[Len(ValidEvents)]

(***************************************************************************)
(* ==================  parseSSEStream (chat client)  ===================== *)
(***************************************************************************)

\* A response body carries at most MaxChatEvents events.
MaxChatEvents == 2

EventPrefix == <<"e", "v", "e", "n", "t", ":", " ">>
DataPrefix == <<"d", "a", "t", "a", ":", " ">>
NewLine == "\n"

\* The events of the server: a type and a JSON object.
ChatEvent(type, json) == [type |-> type, json |-> json]
ChatEventTypes == {<<"a">>, <<"b">>}
ChatEventData == {<<"{", "}">>}
ChatEventLists ==
    UNION {[1..n -> {ChatEvent(ty, js) : ty \in ChatEventTypes, js \in ChatEventData}] :
                n \in 1..MaxChatEvents}

\* sendSSEEvent's text of an event: event: <type>\ndata: <json>\n\n
EventText(e) ==
    EventPrefix \o e.type \o <<NewLine>> \o DataPrefix \o e.json \o <<NewLine, NewLine>>

\* buffer.split('\n')
RECURSIVE SplitLines(_, _, _, _)
SplitLines(text, i, cur, acc) ==
    IF i > Len(text) THEN Append(acc, cur)
    ELSE IF text[i] = NewLine THEN SplitLines(text, i + 1, <<>>, Append(acc, <<>> \o cur))
    ELSE SplitLines(text, i + 1, Append(cur, text[i]), acc)

\* What onEvent is called with.
Delivery(type, val) == [type |-> type, data |-> val]

\* The for loop over the complete lines of one read: currentEvent (the empty
\* text is null) and currentData start empty at every read.
RECURSIVE ProcessLines(_, _, _, _, _)
ProcessLines(lines, i, currentEvent, data, out) ==
    IF i > Len(lines) THEN out
    ELSE LET line == lines[i]
         IN  IF StartsWith(line, EventPrefix)
             THEN ProcessLines(lines, i + 1,
                               Trim(SubSeq(line, Len(EventPrefix) + 1, Len(line))),
                               data, out)
             ELSE IF StartsWith(line, DataPrefix)
             THEN ProcessLines(lines, i + 1, currentEvent,
                               Append(data, SubSeq(line, Len(DataPrefix) + 1, Len(line))),
                               out)
             ELSE IF line = <<>> /\ currentEvent # <<>> /\ data # <<>>
             THEN LET r == JsonParse(Flatten(data))
                  IN  ProcessLines(lines, i + 1, <<>>, <<>>,
                                   IF r.ok THEN Append(out, Delivery(currentEvent, r.val))
                                   ELSE out)
             ELSE ProcessLines(lines, i + 1, currentEvent, data, out)

\* The server's response body is opened.
RdOpen(sent) ==
    /\ rdPhase = "idle"
    /\ rdSent' = sent
    /\ rdStream' = Flatten([i \in DOMAIN sent |-> EventText(sent[i])])
    /\ rdPos' = 0
    /\ rdBuffer' = <<>>
    /\ rdDelivered' = <<>>
    /\ rdPhase' = "reading"

\* reader.read() resolves with the next n characters of the body.
RdRead(n) ==
    /\ rdPhase = "reading"
    /\ n >= 1
    /\ rdPos + n <= Len(rdStream)
    /\ LET text == rdBuffer \o SubSeq(rdStream, rdPos + 1, rdPos + n)
           pieces == SplitLines(text, 1, <<>>, <<>>)
           lines == SubSeq(pieces, 1, Len(pieces) - 1)
       IN  /\ rdBuffer' = pieces[Len(pieces)]
           /\ rdDelivered' = ProcessLines(lines, 1, <<>>, <<>>, rdDelivered)
    /\ rdPos' = rdPos + n
    /\ UNCHANGED <<rdSent, rdStream, rdPhase>>

\* reader.read() resolves with done.
RdDone ==
    /\ rdPhase = "reading"
    /\ rdPos = Len(rdStream)
    /\ rdPhase' = "closed"
    /\ UNCHANGED <<rdSent, rdStream, rdPos, rdBuffer, rdDelivered>>

RdNext ==
    \/ \E sent \in ChatEventLists :
            RdOpen(sent) /\ UNCHANGED <<clientVars, accVars, engVars, srvVars, fmtVars, sinkVars, lvVars, dsVars, ceVars, sessVars, sseVars>>
    \/ \E n \in 1..Len(rdStream) :
            RdRead(n) /\ UNCHANGED <<clientVars, accVars, engVars, srvVars, fmtVars, sinkVars, lvVars, dsVars, ceVars, sessVars, sseVars>>
    \/ RdDone /\ UNCHANGED <<clientVars, accVars, engVars, srvVars, fmtVars, sinkVars, lvVars, dsVars, ceVars, sessVars, sseVars>>

RdSpec == Init /\ [][RdNext]_vars

\* C40: whatever the reads the body arrives in, the handler is called once
\* for every event the server sent, in the order sent: the deliveries are at
\* all times a prefix of the events sent, and all of them once the body has
\* ended.
C40_EveryEventOnceInOrder ==
    /\ Len(rdDelivered) <= Len(rdSent)
    /\ \A i \in DOMAIN rdDelivered :
            /\ rdDelivered[i].type = rdSent[i].type
            /\ rdDelivered[i].data = JsonParse(rdSent[i].json).val
    /\ rdPhase = "closed" => Len(rdDelivered) = Len(rdSent)

=========================================================================
